---- MODULE Spec2Model ----
(***************************************************************************)
(* Model of the layout-driven holdings extractor (fund_extractor).         *)
(*                                                                         *)
(* Text is modelled character by character: a string is a sequence of      *)
(* one-character strings.  The four non-ASCII glyphs of the source are the *)
(* atoms EmDash, EnDash, Dagger and DoubleDagger.  An optional value       *)
(* (Python None or a value) is the empty tuple or a one-element tuple.     *)
(***************************************************************************)
EXTENDS Integers, Sequences, FiniteSets, TLC

\* ------------------------------------------------------------------ text

EmDash == "U+2014"
EnDash == "U+2013"
Dagger == "U+2020"
DoubleDagger == "U+2021"

UpperSeq == <<"A","B","C","D","E","F","G","H","I","J","K","L","M",
              "N","O","P","Q","R","S","T","U","V","W","X","Y","Z">>
LowerSeq == <<"a","b","c","d","e","f","g","h","i","j","k","l","m",
              "n","o","p","q","r","s","t","u","v","w","x","y","z">>
DigitSeq == <<"0","1","2","3","4","5","6","7","8","9">>

Range(s) == {s[i] : i \in DOMAIN s}

\* [A-Z], [a-z], [0-9], [A-Za-z], \s and \w of the regular expressions.
Upper == Range(UpperSeq)
Lower == Range(LowerSeq)
Digit == Range(DigitSeq)
Alpha == Upper \cup Lower
Space == {" ", "\t"}
WordChar == Alpha \cup Digit \cup {"_"}
\* [—\-–] of the country-heading patterns.
DashChar == {EmDash, "-", EnDash}

None == <<>>
Some(x) == <<x>>

DigitVal(c) == (CHOOSE i \in DOMAIN DigitSeq : DigitSeq[i] = c) - 1

\* str.lower() on one character.
LowerChar(c) ==
    IF c \in Upper THEN LowerSeq[CHOOSE i \in DOMAIN UpperSeq : UpperSeq[i] = c] ELSE c

LowerStr(s) == [i \in DOMAIN s |-> LowerChar(s[i])]

RECURSIVE LStripSet(_, _)
LStripSet(s, cs) ==
    IF s # <<>> /\ Head(s) \in cs THEN LStripSet(Tail(s), cs) ELSE s

RECURSIVE RStripSet(_, _)
RStripSet(s, cs) ==
    IF s # <<>> /\ s[Len(s)] \in cs THEN RStripSet(SubSeq(s, 1, Len(s) - 1), cs) ELSE s

\* str.strip()
Strip(s) == RStripSet(LStripSet(s, Space), Space)

IsSpaceChar(c) == c \in Space
NotSpaceChar(c) == c \notin Space
NotBlankChar(c) == c # " "

\* re.sub(r"\s+", "", s)
NoSpace(s) == SelectSeq(s, NotSpaceChar)

\* s.replace(" ", "")
ReplaceBlank(s) == SelectSeq(s, NotBlankChar)

\* s.startswith(p)
StartsWith(s, p) == Len(p) <= Len(s) /\ SubSeq(s, 1, Len(p)) = p

\* p occurs in s at the zero-based offset i.
OccursAt(s, p, i) == i + Len(p) <= Len(s) /\ SubSeq(s, i + 1, i + Len(p)) = p

\* s.find(p): the least zero-based offset of p in s, or -1.
Find(s, p) ==
    IF \E i \in 0..Len(s) : OccursAt(s, p, i)
    THEN CHOOSE i \in 0..Len(s) :
            OccursAt(s, p, i) /\ \A j \in 0..(i - 1) : ~OccursAt(s, p, j)
    ELSE -1

\* p in s
Contains(s, p) == \E i \in 0..Len(s) : OccursAt(s, p, i)

\* re.search(r"[A-Za-z]", s) and re.search(r"[A-Za-z0-9]", s)
HasLetter(s) == \E i \in DOMAIN s : s[i] \in Alpha
HasAlnum(s) == \E i \in DOMAIN s : s[i] \in Alpha \cup Digit

RECURSIVE Join(_, _)
\* sep.join(parts)
Join(parts, sep) ==
    IF parts = <<>> THEN <<>>
    ELSE IF Len(parts) = 1 THEN parts[1]
    ELSE parts[1] \o sep \o Join(Tail(parts), sep)

\* ------------------------------------------------- Numeric Token Parser

\* The end (one-based, inclusive) of the maximal run of [0-9,] that starts at i.
RECURSIVE RunEnd(_, _)
RunEnd(s, i) ==
    IF i < Len(s) /\ s[i + 1] \in Digit \cup {","} THEN RunEnd(s, i + 1) ELSE i

\* re.finditer(r"[0-9][0-9,]*", line) from the one-based position i on:
\* the sequence of <<zero-based start, token>>.
RECURSIVE TokensFrom(_, _)
TokensFrom(line, i) ==
    IF i > Len(line) THEN <<>>
    ELSE IF line[i] \in Digit
         THEN LET e == RunEnd(line, i)
              IN  <<<<i - 1, SubSeq(line, i, e)>>>> \o TokensFrom(line, e + 1)
         ELSE TokensFrom(line, i + 1)

\* A tokenizer whose tokens are runs of digits alone: a comma ends the token.
_parse_numeric_tokens_DigitsOnly(line) ==
    LET starts == {i \in DOMAIN line :
                      line[i] \in Digit /\ (i = 1 \/ line[i - 1] \notin Digit)}
        nth(n) == CHOOSE i \in starts : Cardinality({j \in starts : j < i}) = n - 1
        stop(i) == CHOOSE e \in i..Len(line) :
                      /\ \A k \in i..e : line[k] \in Digit
                      /\ (e = Len(line) \/ line[e + 1] \notin Digit)
    IN  [n \in 1..Cardinality(starts) |-> <<nth(n) - 1, SubSeq(line, nth(n), stop(nth(n)))>>]

\* _parse_numeric_tokens(line): the matches of [0-9][0-9,]* from left to right.
_parse_numeric_tokens(line) ==
    TokensFrom(line, 1)

RECURSIVE DigitsValue(_)
DigitsValue(ds) ==
    IF ds = <<>> THEN 0
    ELSE 10 * DigitsValue(SubSeq(ds, 1, Len(ds) - 1)) + DigitVal(ds[Len(ds)])

NotCommaDollar(c) == c \notin {",", "$"}
NotFootnote(c) == c \notin {"*", Dagger, DoubleDagger}

\* float(cleaned) trims the text and reads an optional sign in front of the
\* number. Over the characters followed here (digits, commas, "$", footnote
\* marks, signs, dashes, blanks and letters other than those of "inf", "nan"
\* and exponents; no ".", no "_") the number is a digit run.
FloatBody(s) ==
    LET t == Strip(s)
    IN  IF t # <<>> /\ t[1] \in {"+", "-"} THEN Tail(t) ELSE t

\* float(cleaned) succeeds.
IsFloatText(s) ==
    LET b == FloatBody(s)
    IN  b # <<>> /\ \A i \in DOMAIN b : b[i] \in Digit

\* The value of float(cleaned) when it succeeds.
FloatValue(s) ==
    IF Strip(s)[1] = "-" THEN 0 - DigitsValue(FloatBody(s))
    ELSE DigitsValue(FloatBody(s))

\* A parser that reads a lone dash, and any text float() rejects, as zero.
_parse_number_DashIsZero(raw) ==
    LET cleaned0 == Strip(SelectSeq(raw, NotCommaDollar))
        cleaned  == SelectSeq(cleaned0, NotFootnote)
    IN  IF cleaned = <<>> THEN None
        ELSE IF IsFloatText(cleaned) THEN Some(FloatValue(cleaned))
        ELSE Some(0)

_parse_number(raw) ==
    LET cleaned0 == Strip(SelectSeq(raw, NotCommaDollar))
        cleaned  == SelectSeq(cleaned0, NotFootnote)
    IN  IF cleaned = <<>> \/ cleaned = <<"-">> \/ cleaned = <<EmDash>> THEN None
        ELSE IF IsFloatText(cleaned) THEN Some(FloatValue(cleaned))
        ELSE None

\* ------------------------------------------------------ Name Normalizer

\* re.sub(r"(?<=[^\sA-Z,])(?=[A-Z])", " ", name): a blank goes in front of every
\* capital whose left neighbour is neither whitespace, a capital nor a comma.
RECURSIVE SplitCaps(_, _)
SplitCaps(name, i) ==
    IF i > Len(name) THEN <<>>
    ELSE (IF i > 1 /\ name[i] \in Upper /\ name[i - 1] \notin Space \cup Upper \cup {","}
          THEN <<" ", name[i]>> ELSE <<name[i]>>) \o SplitCaps(name, i + 1)

\* re.sub(r",(?=[A-Za-z])", ", ", name)
RECURSIVE SpaceAfterComma(_, _)
SpaceAfterComma(name, i) ==
    IF i > Len(name) THEN <<>>
    ELSE (IF name[i] = "," /\ i < Len(name) /\ name[i + 1] \in Alpha
          THEN <<",", " ">> ELSE <<name[i]>>) \o SpaceAfterComma(name, i + 1)

\* The end (one-based, inclusive) of the whitespace run that starts at i.
RECURSIVE SpaceRunEnd(_, _)
SpaceRunEnd(s, i) ==
    IF i < Len(s) /\ s[i + 1] \in Space THEN SpaceRunEnd(s, i + 1) ELSE i

\* re.sub(r"\s{2,}", " ", name)
RECURSIVE CollapseSpaces(_, _)
CollapseSpaces(name, i) ==
    IF i > Len(name) THEN <<>>
    ELSE IF name[i] \in Space
         THEN LET e == SpaceRunEnd(name, i)
              IN  (IF e > i THEN <<" ">> ELSE <<name[i]>>) \o CollapseSpaces(name, e + 1)
         ELSE <<name[i]>> \o CollapseSpaces(name, i + 1)

\* A normalizer that does not trim the ends.
_normalize_name_NoTrim(name) ==
    CollapseSpaces(SpaceAfterComma(SplitCaps(name, 1), 1), 1)

\* A normalizer that leaves runs of whitespace as they are.
_normalize_name_NoCollapse(name) ==
    Strip(SpaceAfterComma(SplitCaps(name, 1), 1))

_normalize_name(name) ==
    Strip(CollapseSpaces(SpaceAfterComma(SplitCaps(name, 1), 1), 1))

\* ---------------------------------------------- Country/Heading Resolver

\* COUNTRY_TO_ISO3 in declaration order (a repeated key keeps its first place).
COUNTRY_TO_ISO3 ==
   <<
      <<<<"C","a","n","a","d","a">>, "CAN">>,
      <<<<"S","w","e","d","e","n">>, "SWE">>,
      <<<<"S","w","i","t","z","e","r","l","a","n","d">>, "CHE">>,
      <<<<"C","h","i","n","a">>, "CHN">>,
      <<<<"T","a","i","w","a","n">>, "TWN">>,
      <<<<"D","e","n","m","a","r","k">>, "DNK">>,
      <<<<"F","r","a","n","c","e">>, "FRA">>,
      <<<<"G","e","r","m","a","n","y">>, "DEU">>,
      <<<<"I","n","d","i","a">>, "IND">>,
      <<<<"I","t","a","l","y">>, "ITA">>,
      <<<<"J","a","p","a","n">>, "JPN">>,
      <<<<"N","e","t","h","e","r","l","a","n","d","s">>, "NLD">>,
      <<<<"N","o","r","w","a","y">>, "NOR">>,
      <<<<"F","i","n","l","a","n","d">>, "FIN">>,
      <<<<"B","e","l","g","i","u","m">>, "BEL">>,
      <<<<"A","u","s","t","r","i","a">>, "AUT">>,
      <<<<"I","r","e","l","a","n","d">>, "IRL">>,
      <<<<"P","o","r","t","u","g","a","l">>, "PRT">>,
      <<<<"P","o","l","a","n","d">>, "POL">>,
      <<<<"C","z","e","c","h"," ","R","e","p","u","b","l","i","c">>, "CZE">>,
      <<<<"H","u","n","g","a","r","y">>, "HUN">>,
      <<<<"S","i","n","g","a","p","o","r","e">>, "SGP">>,
      <<<<"S","o","u","t","h"," ","K","o","r","e","a">>, "KOR">>,
      <<<<"S","p","a","i","n">>, "ESP">>,
      <<<<"U","n","i","t","e","d"," ","K","i","n","g","d","o","m">>, "GBR">>,
      <<<<"U","n","i","t","e","d"," ","S","t","a","t","e","s">>, "USA">>,
      <<<<"A","u","s","t","r","a","l","i","a">>, "AUS">>,
      <<<<"N","e","w"," ","Z","e","a","l","a","n","d">>, "NZL">>,
      <<<<"B","r","a","z","i","l">>, "BRA">>,
      <<<<"M","e","x","i","c","o">>, "MEX">>,
      <<<<"A","r","g","e","n","t","i","n","a">>, "ARG">>,
      <<<<"C","h","i","l","e">>, "CHL">>,
      <<<<"C","o","l","o","m","b","i","a">>, "COL">>,
      <<<<"P","e","r","u">>, "PER">>,
      <<<<"U","r","u","g","u","a","y">>, "URY">>,
      <<<<"P","h","i","l","i","p","p","i","n","e","s">>, "PHL">>,
      <<<<"I","n","d","o","n","e","s","i","a">>, "IDN">>,
      <<<<"M","a","l","a","y","s","i","a">>, "MYS">>,
      <<<<"T","h","a","i","l","a","n","d">>, "THA">>,
      <<<<"V","i","e","t","n","a","m">>, "VNM">>,
      <<<<"P","a","k","i","s","t","a","n">>, "PAK">>,
      <<<<"B","a","n","g","l","a","d","e","s","h">>, "BGD">>,
      <<<<"T","u","r","k","e","y">>, "TUR">>,
      <<<<"I","s","r","a","e","l">>, "ISR">>,
      <<<<"R","o","m","a","n","i","a">>, "ROU">>,
      <<<<"S","a","u","d","i"," ","A","r","a","b","i","a">>, "SAU">>,
      <<<<"U","n","i","t","e","d"," ","A","r","a","b"," ","E","m","i","r","a","t","e","s">>, "ARE">>,
      <<<<"Q","a","t","a","r">>, "QAT">>,
      <<<<"K","u","w","a","i","t">>, "KWT">>,
      <<<<"B","a","h","r","a","i","n">>, "BHR">>,
      <<<<"S","o","u","t","h"," ","A","f","r","i","c","a">>, "ZAF">>,
      <<<<"E","g","y","p","t">>, "EGY">>,
      <<<<"N","i","g","e","r","i","a">>, "NGA">>,
      <<<<"K","e","n","y","a">>, "KEN">>,
      <<<<"M","o","r","o","c","c","o">>, "MAR">>,
      <<<<"R","u","s","s","i","a">>, "RUS">>,
      <<<<"U","k","r","a","i","n","e">>, "UKR">>,
      <<<<"G","r","e","e","c","e">>, "GRC">>,
      <<<<"H","o","n","g"," ","K","o","n","g">>, "HKG">>,
      <<<<"S","l","o","v","e","n","i","a">>, "SVN">>
   >>

\* s, from the zero-based offset i on, is \s* followed by one of the dashes.
RECURSIVE DashFollows(_, _)
DashFollows(s, i) ==
    /\ i < Len(s)
    /\ \/ s[i + 1] \in DashChar
       \/ s[i + 1] \in Space /\ DashFollows(s, i + 1)

\* re.search(rf"\b{name}\b\s*[—\-–]", heading)
MatchesWithSpace(heading, name) ==
    \E i \in 0..Len(heading) :
        /\ OccursAt(heading, name, i)
        /\ i = 0 \/ heading[i] \notin WordChar
        /\ i + Len(name) = Len(heading) \/ heading[i + Len(name) + 1] \notin WordChar
        /\ DashFollows(heading, i + Len(name))

\* re.search(rf"{name_nospace}\s*[—\-–]", heading_nospace)
MatchesNoSpace(heading, name) ==
    LET h == ReplaceBlank(heading)
        n == ReplaceBlank(name)
    IN  \E i \in 0..Len(h) : OccursAt(h, n, i) /\ DashFollows(h, i + Len(n))

\* A lookup that tests the line as it is and never its space-free form.
EntryMatches_SpacedOnly(heading, k) ==
    MatchesWithSpace(heading, COUNTRY_TO_ISO3[k][1])

EntryMatches(heading, k) ==
    \/ MatchesWithSpace(heading, COUNTRY_TO_ISO3[k][1])
    \/ MatchesNoSpace(heading, COUNTRY_TO_ISO3[k][1])

country_heading_to_iso3(heading) ==
    IF \E k \in DOMAIN COUNTRY_TO_ISO3 : EntryMatches(heading, k)
    THEN Some(COUNTRY_TO_ISO3[CHOOSE k \in DOMAIN COUNTRY_TO_ISO3 :
                /\ EntryMatches(heading, k)
                /\ \A j \in 1..(k - 1) : ~EntryMatches(heading, j)][2])
    ELSE None

\* ------------------------------------------------------------- bounds

\* Pages in a one-column document.
MaxPages == 3
\* Pages in a multi-column document.
MaxWidePages == 2
\* Lines the text provider hands out, in all, for the cropped columns of a
\* multi-column document.
MaxDocLines == 2
\* Pages of a document whose page selection alone is followed.
MaxSelectPages == 3
\* The largest column count of the layouts whose boxes alone are followed.
MaxColumns == 3
\* Rows of a list handed to validate_holdings.
MaxRows == 3
\* Files in configs/ when main is followed.
MaxConfigs == 2

\* --------------------------------------------- strings of the inputs

\* "Schedule of Investments"
S_Header ==
    <<"S","c","h","e","d","u","l","e"," ","o","f"," ","I","n","v","e","s","t","m","e","n","t","s">>

\* "TOTAL INVESTMENTS"
S_TotalInv ==
    <<"T","O","T","A","L"," ","I","N","V","E","S","T","M","E","N","T","S">>

\* "Total"
S_Total ==
    <<"T","o","t","a","l">>

\* "Common Stocks"
S_CommonStocks ==
    <<"C","o","m","m","o","n"," ","S","t","o","c","k","s">>

\* "Total Return Swaps"
S_Swaps ==
    <<"T","o","t","a","l"," ","R","e","t","u","r","n"," ","S","w","a","p","s">>

\* "See Notes"
S_SeeNotes ==
    <<"S","e","e"," ","N","o","t","e","s">>

\* "Sample Fund"
S_DefaultFund ==
    <<"S","a","m","p","l","e"," ","F","u","n","d">>

\* "fund"
S_Fund ==
    <<"f","u","n","d">>

\* "Schedule of Investments"
L_Schedule ==
    <<"S","c","h","e","d","u","l","e"," ","o","f"," ","I","n","v","e","s","t","m","e","n","t","s">>

\* "Common Stocks"
L_CommonStocks ==
    <<"C","o","m","m","o","n"," ","S","t","o","c","k","s">>

\* "Canada—6.5%"
L_Canada ==
    <<"C","a","n","a","d","a","U+2014","6",".","5","%">>

\* "Acme Corp 100 1,234"
L_Acme ==
    <<"A","c","m","e"," ","C","o","r","p"," ","1","0","0"," ","1",",","2","3","4">>

\* "Beta Inc 5 6 7"
L_Beta ==
    <<"B","e","t","a"," ","I","n","c"," ","5"," ","6"," ","7">>

\* "TOTAL INVESTMENTS"
L_Total ==
    <<"T","O","T","A","L"," ","I","N","V","E","S","T","M","E","N","T","S">>

\* "Total Return Swaps 3 4"
L_Swaps ==
    <<"T","o","t","a","l"," ","R","e","t","u","r","n"," ","S","w","a","p","s"," ","3"," ","4">>

\* "See Notes 1 2"
L_Notes ==
    <<"S","e","e"," ","N","o","t","e","s"," ","1"," ","2">>

\* "Gamma Ltd 7"
L_Gamma ==
    <<"G","a","m","m","a"," ","L","t","d"," ","7">>

\* "DeltaCo. . 9 8,000"
L_Delta ==
    <<"D","e","l","t","a","C","o","."," ","."," ","9"," ","8",",","0","0","0">>

\* "Common Stocks 9 8"
L_StocksRow ==
    <<"C","o","m","m","o","n"," ","S","t","o","c","k","s"," ","9"," ","8">>

\* "Total Canada—6.5%"
L_TotalCanada ==
    <<"T","o","t","a","l"," ","C","a","n","a","d","a","U+2014","6",".","5","%">>

\* "100 Acme Corp 7"
M_Small ==
    <<"1","0","0"," ","A","c","m","e"," ","C","o","r","p"," ","7">>

\* "  "
L_Blank ==
    <<" "," ">>

\* "1,234 5,678"
L_Numbers ==
    <<"1",",","2","3","4"," ","5",",","6","7","8">>

\* "Acme Growth Fund"
L_Fund ==
    <<"A","c","m","e"," ","G","r","o","w","t","h"," ","F","u","n","d">>

\* "Notes to Financial Statements"
L_Statements ==
    <<"N","o","t","e","s"," ","t","o"," ","F","i","n","a","n","c","i","a","l"," ","S","t","a","t","e","m","e","n","t","s">>

\* "100 Acme Corp 1,234"
M_Acme ==
    <<"1","0","0"," ","A","c","m","e"," ","C","o","r","p"," ","1",",","2","3","4">>

\* "5 Beta Inc"
M_Beta ==
    <<"5"," ","B","e","t","a"," ","I","n","c">>

\* "Class A 77"
M_ClassA ==
    <<"C","l","a","s","s"," ","A"," ","7","7">>

\* "Canada—Investment Company"
M_CanadaCompany ==
    <<"C","a","n","a","d","a","U+2014","I","n","v","e","s","t","m","e","n","t"," ","C","o","m","p","a","n","y">>

\* "Acme Corp"
N_Acme ==
    <<"A","c","m","e"," ","C","o","r","p">>

\* "Investment Company"
M_Company ==
    <<"I","n","v","e","s","t","m","e","n","t"," ","C","o","m","p","a","n","y">>

\* ---------------------------------------------------------- LayoutConfig

MULTILINE == "two_column_multiline_shares_first"

Cfg(layout_type, columns, shares_token_index, value_token_index) ==
    [ schedule_header    |-> S_Header,
      layout_type        |-> layout_type,
      columns            |-> columns,
      shares_token_index |-> shares_token_index,
      value_token_index  |-> value_token_index,
      instrument_headers |-> << <<S_CommonStocks, "Common Stock">>, <<S_Swaps, "Swap">> >>,
      stop_line_prefixes |-> <<S_Total>>,
      stop_line_contains |-> <<S_TotalInv>>,
      noise_prefixes     |-> <<S_SeeNotes>> ]

\* The layouts the model runs: the three generic layout types, the multi-line
\* type also with one column, and a one-column layout whose value is the third
\* numeric token.  (layout_type "hartford_custom" hands the document to the
\* legacy extractor and is not part of the engine.)
Configs ==
    { Cfg("one_column_line_numeric", 1, 0, 1),
      Cfg("two_column_line_numeric", 2, 0, 1),
      Cfg("one_column_line_numeric", 1, 0, 2),
      Cfg(MULTILINE, 2, 0, 1),
      Cfg(MULTILINE, 1, 0, 1) }

\* ------------------------------------------------------ the documents

\* Page texts (page.extract_text() as its lines) of one-column documents.
P_Scenario == <<L_Schedule, L_Canada, L_Acme, L_Total>>
P_ScenarioMore == <<L_Schedule, L_Canada, L_Acme, L_Total, L_Beta>>
P_Continued == <<L_CommonStocks, L_Blank, L_Beta, L_Numbers>>
P_Multi == <<L_Schedule, M_Acme, L_Total, M_Beta, M_ClassA>>
P_Marker == <<L_Schedule, M_Beta, M_CanadaCompany, M_Acme, L_StocksRow>>
P_Plain == <<L_Statements>>

\* The page text of the pages of a multi-column document.
P_Cover == <<L_Fund, L_Schedule>>

\* Pages without the schedule header: three shares-first lines that end with a
\* number of several digits, and three that end with a number of one digit.
P_Rows == <<M_Acme, M_Acme, M_Acme>>
P_Small == <<M_Small, M_Small, M_Small>>

\* The pages of the documents whose page selection alone is followed.
SelectionPages == {P_Scenario, P_Continued, P_Plain, P_Rows, P_Small}

OneColumnPages == {P_Scenario, P_ScenarioMore, P_Continued, P_Multi, P_Marker, P_Plain}
MultiColumnPages == {P_Cover}

\* The lines a cropped column of a multi-column page can hold.
SingleLinePool ==
    {L_CommonStocks, L_Canada, L_Acme, L_Beta, L_Total, L_Swaps, L_Notes, L_Gamma,
     L_TotalCanada, L_Delta}
MultiLinePool ==
    {L_CommonStocks, L_Canada, M_Acme, M_Beta, M_ClassA, L_Total, L_Swaps, L_Notes,
     M_Company}

SeqsUpTo(S, n) == UNION {[1..k -> S] : k \in 0..n}

Documents(c) ==
    IF c.columns <= 1 THEN SeqsUpTo(OneColumnPages, MaxPages)
    ELSE SeqsUpTo(MultiColumnPages, MaxWidePages)

\* ------------------------------------------------------------- state

VARIABLES
    cfg,                    \* the LayoutConfig
    fund_name,              \* the caller's default fund name
    report_date,            \* the caller's report date
    pages,                  \* pdf.pages: the text of each page, as its lines
    width,                  \* page.width, the same for every page
    height,                 \* page.height, the same for every page
    boxes,                  \* the column boxes of the current page
    pc,                     \* where extract_with_layout stands
    schedule_pages,         \* the selected page indices (zero-based)
    page_pos,               \* position of the page loop in schedule_pages (from 1)
    col_idx,                \* index of the column box being scanned (zero-based)
    line_idx,               \* lines of the column read so far
    page_fund_name,
    holdings,
    current_security_type,
    current_country_iso3,
    pending_name_parts,
    pending_shares,
    pending_value,
    pending_country_iso3,
    lines_left,             \* provider: lines it may still hand out (MaxDocLines)
    origins,                \* history: <<page, column, line>> of each Holding's source line
    pending_origin,         \* history: line index of the pending record's start line
    col_starts,             \* history: record-start lines read in the current column
    col_emitted,            \* history: Holdings emitted from the current column
    last,                   \* history: what the last step did
    v_holdings,             \* validate_holdings: its argument
    v_pc,                   \* validate_holdings: where it stands
    v_idx,                  \* validate_holdings: idx, the row of the loop
    errors,
    warnings,
    total_market_value,
    m_pc,                   \* main: where it stands
    fund_id,                \* main: args.fund_id
    raw_configs,            \* main: the parsed files of configs/, in path order
    configs,                \* main: the loaded LayoutConfigs
    m_exit,                 \* main: the exception that ended it, if any
    m_fs,                   \* main: the directories and files it has created
    fn,                     \* a helper called on its own: its name
    fn_arg,                 \* its argument
    fn_result,              \* its result, once it has returned
    queue,                  \* a process that extracts several documents: those still to come
    results                 \* and the documents done, each with its Holdings

vars ==
    <<cfg, fund_name, report_date, pages, width, height, boxes, pc, schedule_pages, page_pos, col_idx, line_idx,
      page_fund_name, holdings, current_security_type, current_country_iso3,
      pending_name_parts, pending_shares, pending_value, pending_country_iso3,
      lines_left, origins, pending_origin, col_starts, col_emitted, last,
      v_holdings, v_pc, v_idx, errors, warnings, total_market_value,
      m_pc, fund_id, raw_configs, configs, m_exit, m_fs,
      fn, fn_arg, fn_result, queue, results>>

\* The state of extract_with_layout.
extractor_vars ==
    <<cfg, fund_name, report_date, pages, width, height, boxes, pc,
      schedule_pages, page_pos, col_idx, line_idx, page_fund_name, holdings,
      current_security_type, current_country_iso3, pending_name_parts,
      pending_shares, pending_value, pending_country_iso3, lines_left, origins,
      pending_origin, col_starts, col_emitted, last>>

\* The state of validate_holdings.
validator_vars == <<v_holdings, v_pc, v_idx, errors, warnings, total_market_value>>

\* The state of main, of a helper called on its own, and of a process that
\* calls extract_with_layout several times.
main_vars == <<m_pc, fund_id, raw_configs, configs, m_exit, m_fs>>
call_vars == <<fn, fn_arg, fn_result>>
rerun_vars == <<queue, results>>
caller_vars == <<main_vars, call_vars, rerun_vars>>

\* ------------------------------------------------ Page & Column Selector

\* The whole text is the empty string.
TextEmpty(text) == text = <<>> \/ text = << <<>> >>

RECURSIVE FlatNoSpace(_)
\* re.sub(r"\s+", "", text) of a text given as its lines.
FlatNoSpace(text) ==
    IF text = <<>> THEN <<>> ELSE NoSpace(Head(text)) \o FlatNoSpace(Tail(text))

_contains_normalized(haystack, needle) ==
    IF TextEmpty(haystack) \/ needle = <<>> THEN FALSE
    ELSE Contains(LowerStr(FlatNoSpace(haystack)), LowerStr(NoSpace(needle)))

\* re.search(r"(?im)^(.*Fund)\s*$", text): the line ends, trailing whitespace
\* aside, with "fund" in any case.
EndsWithFund(line) ==
    LET r == RStripSet(line, Space)
    IN  Len(r) >= 4 /\ LowerStr(SubSeq(r, Len(r) - 3, Len(r))) = S_Fund

_guess_fund_name(text, default) ==
    IF \E i \in DOMAIN text : EndsWithFund(text[i])
    THEN Strip(text[CHOOSE i \in DOMAIN text :
                  EndsWithFund(text[i]) /\ \A j \in 1..(i - 1) : ~EndsWithFund(text[j])])
    ELSE default

\* re.match(r"^[0-9][0-9,]*\s+.*[0-9][0-9,]+$", line)
SharesFirstLine(line) ==
    /\ line # <<>>
    /\ line[1] \in Digit
    /\ LET e == RunEnd(line, 1)
       IN  /\ e < Len(line)
           /\ line[e + 1] \in Space
           /\ \E k \in (e + 2)..(Len(line) - 1) :
                /\ line[k] \in Digit
                /\ \A j \in (k + 1)..Len(line) : line[j] \in Digit \cup {","}

page_looks_like_holdings(c, text) ==
    IF \A i \in DOMAIN text : Strip(text[i]) = <<>> THEN FALSE
    ELSE \/ \E k \in DOMAIN c.instrument_headers :
              LET hdr == c.instrument_headers[k][1]
              IN  \/ \E i \in DOMAIN text : Contains(text[i], hdr)
                  \/ Contains(FlatNoSpace(text), NoSpace(hdr))
         \/ Cardinality({i \in DOMAIN text : SharesFirstLine(Strip(text[i]))}) >= 3

\* The zero-based indices of the pages that hold the schedule header.
AnchorPages(c, doc) ==
    {i \in 0..(Len(doc) - 1) : _contains_normalized(doc[i + 1], c.schedule_header)}

Min(S) == CHOOSE m \in S : \A n \in S : m <= n
Max(S) == CHOOSE m \in S : \A n \in S : n <= m

RECURSIVE Sorted(_)
\* sorted(S)
Sorted(S) == IF S = {} THEN <<>> ELSE <<Min(S)>> \o Sorted(S \ {Min(S)})

\* A fallback that takes every page when no page holds the header.
SchedulePages_FallbackAll(c, doc) ==
    LET anchors == AnchorPages(c, doc)
    IN  IF anchors = {} THEN Sorted(0..(Len(doc) - 1))
        ELSE Sorted(anchors \cup
                    {i \in Min(anchors)..Max(anchors) :
                        page_looks_like_holdings(c, doc[i + 1])})

\* The selected pages: none without an anchor page (the fallback repeats the
\* header search), else the anchors and the holdings-like pages between them.
SchedulePages(c, doc) ==
    LET anchors == AnchorPages(c, doc)
    IN  IF anchors = {} THEN <<>>
        ELSE Sorted(anchors \cup
                    {i \in Min(anchors)..Max(anchors) :
                        page_looks_like_holdings(c, doc[i + 1])})

\* A coordinate: the quotient num / den of two integers, den > 0.  The code
\* computes in floating point; the model computes the quotients exactly.
Frac(num, den) == <<num, den>>

\* col_width * i
Times(f, i) == Frac(f[1] * i, f[2])

\* Column boxes whose width is the whole-number quotient width // columns.
Boxes_FloorWidth(c, w, h) ==
    IF c.columns <= 1 THEN << <<Frac(0, 1), 0, Frac(w, 1), h>> >>
    ELSE LET col_width == Frac(w \div c.columns, 1)
         IN  [i \in 1..c.columns |->
                <<Times(col_width, i - 1), 0, Times(col_width, i), h>>]

\* The column boxes (x0, y0, x1, y1) of a page of width w and height h, from
\* left to right.
Boxes(c, w, h) ==
    IF c.columns <= 1 THEN << <<Frac(0, 1), 0, Frac(w, 1), h>> >>
    ELSE LET col_width == Frac(w, c.columns)
         IN  [i \in 1..c.columns |->
                <<Times(col_width, i - 1), 0, Times(col_width, i), h>>]

\* The number of column boxes of a page.
NumBoxes(c) == IF c.columns <= 1 THEN 1 ELSE c.columns

\* "August 31, 2025", "Acme Growth", "Fund"
L_Date ==
    <<"A","u","g","u","s","t"," ","3","1",","," ","2","0","2","5">>
L_AcmeGrowth ==
    <<"A","c","m","e"," ","G","r","o","w","t","h">>
L_FundAlone ==
    <<"F","u","n","d">>

\* The pages of the documents main is run on: a report with the fund name, a
\* date and the scenario's lines; one whose fund name is broken over two lines;
\* the scenario alone; a scanned page without text.
P_Report == <<L_Fund, L_Date, L_Schedule, L_Canada, L_Acme, L_Total>>
P_Broken == <<L_AcmeGrowth, L_FundAlone, L_Schedule, L_Acme>>
P_Scan == <<L_Blank>>
MainPages == {P_Report, P_Broken, P_Scenario, P_Scan}

\* The documents main is run on: each of these pages alone, a report behind a
\* scanned page, a report of two pages, and a document without pages.
MainDocs ==
    {<<P_Report>>, <<P_Broken>>, <<P_Scenario>>, <<P_Scan>>, <<P_Scan, P_Report>>,
     <<P_Report, P_Scenario>>, <<>>}

\* Every line of the model's documents.
AllLines ==
    SingleLinePool \cup MultiLinePool
        \cup UNION {Range(p) : p \in OneColumnPages \cup MultiColumnPages \cup MainPages}

\* country_heading_to_iso3 of every line of the model, stripped as the line
\* loops strip it, worked out once.
CountryOfLine == [l \in AllLines |-> country_heading_to_iso3(Strip(l))] @@ <<>>

\* ------------------------------------- Line Classifier & Holding Assembler

Holding(name, security_type, country, shares, value) ==
    [ fund_name     |-> page_fund_name,
      report_date   |-> report_date,
      security_name |-> name,
      security_type |-> security_type,
      country_iso3  |-> country,
      sector        |-> None,
      shares        |-> shares,
      principal     |-> None,
      market_value  |-> value ]

\* A stop test that forgets the stop substrings.
IsStopLine_PrefixOnly(line) ==
    \E k \in DOMAIN cfg.stop_line_prefixes :
        LET p == cfg.stop_line_prefixes[k]
        IN  StartsWith(line, p) \/ StartsWith(NoSpace(line), NoSpace(p))

\* The stop test of both modes: a stop prefix (as written, or both sides without
\* whitespace) or a stop substring.
IsStopLine(line) ==
    \/ \E k \in DOMAIN cfg.stop_line_prefixes :
          LET p == cfg.stop_line_prefixes[k]
          IN  StartsWith(line, p) \/ StartsWith(NoSpace(line), NoSpace(p))
    \/ \E k \in DOMAIN cfg.stop_line_contains : Contains(line, cfg.stop_line_contains[k])

\* An instrument-header loop that forgets the type on a line without a header.
HeaderType_Reset(line, cur) ==
    LET hdrs == cfg.instrument_headers
    IN  IF \E k \in DOMAIN hdrs : StartsWith(line, hdrs[k][1])
        THEN Some(hdrs[CHOOSE k \in DOMAIN hdrs :
                    /\ StartsWith(line, hdrs[k][1])
                    /\ \A j \in 1..(k - 1) : ~StartsWith(line, hdrs[j][1])][2])
        ELSE None

\* The instrument-header loop: the type of the first prefix, in mapping order,
\* that the line starts with; cur when there is none.
HeaderType(line, cur) ==
    LET hdrs == cfg.instrument_headers
    IN  IF \E k \in DOMAIN hdrs : StartsWith(line, hdrs[k][1])
        THEN Some(hdrs[CHOOSE k \in DOMAIN hdrs :
                    /\ StartsWith(line, hdrs[k][1])
                    /\ \A j \in 1..(k - 1) : ~StartsWith(line, hdrs[j][1])][2])
        ELSE cur

\* A noise test that lets every line pass.
IsNoiseLine_Never(line) == FALSE

\* The noise test of both modes: a noise prefix, as written or both sides
\* without whitespace.
IsNoiseLine(line) ==
    \E k \in DOMAIN cfg.noise_prefixes :
        LET p == cfg.noise_prefixes[k]
        IN  StartsWith(line, p) \/ StartsWith(NoSpace(line), NoSpace(p))

\* What one pass of a line loop does: the kind of line, whether the loop breaks,
\* the Holdings appended, and the new values of the parsing state.
Outcome(kind, brk, out, type, country, parts, shares, value, pcountry) ==
    [ kind |-> kind, brk |-> brk, out |-> out, type |-> type, country |-> country,
      parts |-> parts, shares |-> shares, value |-> value, pcountry |-> pcountry ]

\* An outcome that leaves the pending record as it is.
Plain(kind, brk, out, type, country) ==
    Outcome(kind, brk, out, type, country,
            pending_name_parts, pending_shares, pending_value, pending_country_iso3)

\* A country heading that is skipped without taking its code.
CountryStep_KeepCountry(type, iso) ==
    Plain("country", FALSE, <<>>, type, current_country_iso3)

\* A country heading: the code becomes the column's country and the line is
\* skipped.
CountryStep(type, iso) ==
    Plain("country", FALSE, <<>>, type, iso)

\* A stop test placed after the instrument-header loop.
TypeAtStop_HeaderFirst(line) ==
    HeaderType(line, current_security_type)

\* The stop test comes before the instrument-header loop: the loop breaks with
\* the security type as it was before the line.
TypeAtStop(line) ==
    current_security_type

\* A name test that lets every name pass.
IsEmptyName_Never(name) ==
    FALSE

\* "if not security_name": the normalized name is the empty string.
IsEmptyName(name) ==
    name = <<>>

\* A stop test placed after the country test.
CountryAtStop_HeadingFirst(iso) ==
    IF iso # None THEN iso ELSE current_country_iso3

\* The stop test comes before the country test: the loop breaks with the
\* column's country as it was before the line.
CountryAtStop(iso) ==
    current_country_iso3

\* A value read from the last numeric token of the line, as the multi-line
\* mode reads it.
ValueTokenOf_Last(numeric_tokens) ==
    numeric_tokens[Len(numeric_tokens)]

\* _, value_token = numeric_tokens[cfg.value_token_index]
ValueTokenOf(numeric_tokens) ==
    numeric_tokens[cfg.value_token_index + 1]

\* A header loop that ends the pass over a line that starts with a prefix.
HeaderEndsPass_Matched(line) ==
    \E k \in DOMAIN cfg.instrument_headers : StartsWith(line, cfg.instrument_headers[k][1])

\* The break of the instrument-header loop leaves the loop over the prefixes
\* only: the pass over the line goes on.
HeaderEndsPass(line) == FALSE

\* One pass of the single-line loop.
SingleLineStep(raw_line) ==
    LET line == Strip(raw_line)
        type == HeaderType(line, current_security_type)
        iso  == CountryOfLine[raw_line]
        numeric_tokens == _parse_numeric_tokens(line)
        shares_tok == numeric_tokens[cfg.shares_token_index + 1]
        value_tok  == ValueTokenOf(numeric_tokens)
        security_name ==
            _normalize_name(Strip(RStripSet(SubSeq(line, 1, shares_tok[1]), {".", " "})))
    IN  IF line = <<>> THEN
            Plain("blank", FALSE, <<>>, current_security_type, current_country_iso3)
        ELSE IF IsStopLine(line) THEN
            Plain("stop", TRUE, <<>>, TypeAtStop(line), CountryAtStop(iso))
        ELSE IF HeaderEndsPass(line) THEN
            Plain("header", FALSE, <<>>, type, current_country_iso3)
        ELSE IF iso # None THEN
            CountryStep(type, iso)
        ELSE IF IsNoiseLine(line) THEN
            Plain("noise", FALSE, <<>>, type, current_country_iso3)
        ELSE IF ~HasLetter(line) THEN
            Plain("nodata", FALSE, <<>>, type, current_country_iso3)
        ELSE IF Len(numeric_tokens) <= Max({cfg.shares_token_index, cfg.value_token_index}) THEN
            Plain("short", FALSE, <<>>, type, current_country_iso3)
        ELSE IF IsEmptyName(security_name) THEN
            Plain("noname", FALSE, <<>>, type, current_country_iso3)
        ELSE
            Plain("holding", FALSE,
                  <<Holding(security_name, type, current_country_iso3,
                            _parse_number(shares_tok[2]), _parse_number(value_tok[2]))>>,
                  type, current_country_iso3)

\* "( Cost"
T_Cost1 ==
    <<"("," ","C","o","s","t">>

\* "Cost$"
T_Cost2 ==
    <<"C","o","s","t","$">>

\* "Shares Dividend Rate"
T_Shares ==
    <<"S","h","a","r","e","s"," ","D","i","v","i","d","e","n","d"," ","R","a","t","e">>

\* "Investment Company"
T_Company ==
    <<"I","n","v","e","s","t","m","e","n","t"," ","C","o","m","p","a","n","y">>

TRIM_PATTERNS == <<T_Cost1, T_Cost2, T_Shares, T_Company>>

RECURSIVE TrimName(_, _)
\* The TRIM_PATTERNS loop of finalize_pending from the k-th pattern on.
TrimName(name, k) ==
    IF k > Len(TRIM_PATTERNS) THEN name
    ELSE LET idx == Find(name, TRIM_PATTERNS[k])
         IN  TrimName(IF idx # -1 THEN RStripSet(SubSeq(name, 1, idx), Space) ELSE name,
                      k + 1)

\* A finalize that takes the country the column has when the record is
\* finalized.
finalize_pending_LiveCountry(security_type, parts, shares, value, pcountry) ==
    IF shares = None \/ value = None \/ parts = <<>> THEN <<>>
    ELSE LET name == TrimName(_normalize_name(Join(parts, <<" ">>)), 1)
         IN  IF ~HasLetter(name) THEN <<>>
             ELSE IF name = <<>> THEN <<>>
             ELSE <<Holding(name, security_type, current_country_iso3, shares, value)>>

\* A finalize that does not look at the value.
finalize_pending_NoValueCheck(security_type, parts, shares, value, pcountry) ==
    IF shares = None \/ parts = <<>> THEN <<>>
    ELSE LET name == TrimName(_normalize_name(Join(parts, <<" ">>)), 1)
         IN  IF ~HasLetter(name) THEN <<>>
             ELSE IF name = <<>> THEN <<>>
             ELSE <<Holding(name, security_type, pcountry, shares, value)>>

\* A finalize that asks for the shares and a name only: a record without a
\* value becomes a Holding.
finalize_pending_NoValueTest(security_type, parts, shares, value, pcountry) ==
    IF shares = None \/ parts = <<>> THEN <<>>
    ELSE LET name == TrimName(_normalize_name(Join(parts, <<" ">>)), 1)
         IN  IF ~HasLetter(name) THEN <<>>
             ELSE IF name = <<>> THEN <<>>
             ELSE <<Holding(name, security_type, pcountry, shares, value)>>

\* finalize_pending(): the Holdings it appends (none or one).  It reads the
\* pending record and the current security type and changes neither.
finalize_pending(security_type, parts, shares, value, pcountry) ==
    IF shares = None \/ value = None \/ parts = <<>> THEN <<>>
    ELSE LET name == TrimName(_normalize_name(Join(parts, <<" ">>)), 1)
         IN  IF ~HasLetter(name) THEN <<>>
             ELSE IF name = <<>> THEN <<>>
             ELSE <<Holding(name, security_type, pcountry, shares, value)>>

FinalizeNow(security_type) ==
    finalize_pending(security_type, pending_name_parts, pending_shares, pending_value,
                     pending_country_iso3)

\* re.match(r"^([0-9][0-9,]*)\s+(.*)$", line)
IsRecordStart(line) ==
    /\ line # <<>>
    /\ line[1] \in Digit
    /\ RunEnd(line, 1) < Len(line)
    /\ line[RunEnd(line, 1) + 1] \in Space

\* A reading that keeps a value once it is set: a later line's token does not
\* replace it.
ValueAndText_KeepFirst(text, value) ==
    LET numeric_tokens == _parse_numeric_tokens(text)
        tok == numeric_tokens[Len(numeric_tokens)]
    IN  IF numeric_tokens = <<>> \/ value # None THEN <<value, text>>
        ELSE <<_parse_number(tok[2]), Strip(RStripSet(SubSeq(text, 1, tok[1]), {"$", " "}))>>

\* The last numeric token becomes the value and is cut from the text:
\* <<value, description>>; the value is kept when the text has no token.
ValueAndText(text, value) ==
    LET numeric_tokens == _parse_numeric_tokens(text)
        tok == numeric_tokens[Len(numeric_tokens)]
    IN  IF numeric_tokens = <<>> THEN <<value, text>>
        ELSE <<_parse_number(tok[2]), Strip(RStripSet(SubSeq(text, 1, tok[1]), {"$", " "}))>>

\* The section-restart marker: "Investment Company" or "Shares Dividend Rate"
\* anywhere in the line.
IsMarkerLine(line) ==
    Contains(line, T_Company) \/ Contains(line, T_Shares)

\* A loop that takes every surviving line as a continuation line.
NoRecordPending_Never == FALSE

\* "if pending_shares is None: continue": no record has been started.
NoRecordPending == pending_shares = None

\* One pass of the multi-line loop.
MultiLineStep(raw_line) ==
    LET line == Strip(raw_line)
        type == HeaderType(line, current_security_type)
        iso  == CountryOfLine[raw_line]
        e    == RunEnd(line, 1)
        remainder == SubSeq(line, SpaceRunEnd(line, e + 1) + 1, Len(line))
        first == ValueAndText(remainder, None)
        more  == ValueAndText(line, pending_value)
    IN  IF line = <<>> THEN
            Plain("blank", FALSE, <<>>, current_security_type, current_country_iso3)
        ELSE IF IsMarkerLine(line) THEN
            Plain("marker", TRUE, FinalizeNow(current_security_type),
                  current_security_type, current_country_iso3)
        ELSE IF IsStopLine(line) THEN
            Plain("stop", TRUE, FinalizeNow(current_security_type),
                  TypeAtStop(line), CountryAtStop(iso))
        ELSE IF iso # None THEN
            CountryStep(type, iso)
        ELSE IF IsNoiseLine(line) THEN
            Plain("noise", FALSE, <<>>, type, current_country_iso3)
        ELSE IF ~HasAlnum(line) THEN
            Plain("nodata", FALSE, <<>>, type, current_country_iso3)
        ELSE IF IsRecordStart(line) THEN
            Outcome("start", FALSE, FinalizeNow(type), type, current_country_iso3,
                    IF first[2] # <<>> THEN <<first[2]>> ELSE <<>>,
                    _parse_number(SubSeq(line, 1, e)), first[1], current_country_iso3)
        ELSE IF NoRecordPending THEN
            Plain("ignored", FALSE, <<>>, type, current_country_iso3)
        ELSE
            Outcome("continuation", FALSE, <<>>, type, current_country_iso3,
                    IF more[2] # <<>> THEN Append(pending_name_parts, more[2])
                    ELSE pending_name_parts,
                    pending_shares, more[1], pending_country_iso3)

\* A line loop whose stop test does not break.
LineStep_NoBreak(raw_line) ==
    [(IF cfg.layout_type = MULTILINE THEN MultiLineStep(raw_line)
      ELSE SingleLineStep(raw_line)) EXCEPT !.brk = FALSE]

\* One pass of the line loop of the layout's mode.
LineStep(raw_line) ==
    IF cfg.layout_type = MULTILINE THEN MultiLineStep(raw_line)
    ELSE SingleLineStep(raw_line)

\* --------------------------------------------------- the text provider

\* The page the page loop stands on (zero-based index) and its text.
PageIdx == schedule_pages[page_pos]
PageText == pages[PageIdx + 1]

\* col_page.extract_text(), line by line: the lines the crop of the current
\* column box can show next.  The single box of a one-column layout is the whole
\* page, so its crop reads the page's own text; the crop of one band of a
\* multi-column page is any text over the layout's line pool.
NextLines ==
    IF cfg.columns <= 1
    THEN IF line_idx < Len(PageText) THEN {PageText[line_idx + 1]} ELSE {}
    ELSE IF lines_left = 0 THEN {}
         ELSE IF cfg.layout_type = MULTILINE THEN MultiLinePool ELSE SingleLinePool

\* The crop of the current column box has no line left.
TextExhausted == IF cfg.columns <= 1 THEN line_idx = Len(PageText) ELSE TRUE

\* ----------------------------------------------------------- actions

\* The state at the entry of extract_with_layout, for any arguments.
Entry ==
    /\ fund_name = S_DefaultFund
    /\ report_date = "2024-12-31"
    /\ pc = "select"
    /\ schedule_pages = <<>>
    /\ page_pos = 0
    /\ col_idx = 0
    /\ line_idx = 0
    /\ page_fund_name = <<>>
    /\ holdings = <<>>
    /\ current_security_type = None
    /\ current_country_iso3 = None
    /\ pending_name_parts = <<>>
    /\ pending_shares = None
    /\ pending_value = None
    /\ pending_country_iso3 = None
    /\ lines_left = MaxDocLines
    /\ origins = <<>>
    /\ pending_origin = 0
    /\ col_starts = 0
    /\ col_emitted = 0
    /\ last = [kind |-> "init", raw |-> <<>>, emitted |-> 0]
    /\ boxes = <<>>

\* The page size of the documents: US letter, in points.
PageWidth == 612
PageHeight == 792

\* extract_with_layout or validate_holdings is called directly: main is not
\* running, no helper is called on its own, no further document is queued.
NoCaller ==
    /\ m_pc = "idle"
    /\ fund_id = None
    /\ raw_configs = <<>>
    /\ configs = <<>>
    /\ m_exit = None
    /\ m_fs = <<>>
    /\ fn = "none"
    /\ fn_arg = <<>>
    /\ fn_result = <<>>
    /\ queue = <<>>
    /\ results = <<>>

\* validate_holdings is not running.
NotValidating ==
    /\ v_holdings = <<>>
    /\ v_pc = "idle"
    /\ v_idx = 0
    /\ errors = <<>>
    /\ warnings = <<>>
    /\ total_market_value = 0

Init ==
    /\ cfg \in Configs
    /\ pages \in Documents(cfg)
    /\ width = PageWidth
    /\ height = PageHeight
    /\ Entry
    /\ NotValidating
    /\ NoCaller

Mark(kind) == last' = [kind |-> kind, raw |-> <<>>, emitted |-> 0]

\* Page selection, up to the start of the page loop.
SelectPages ==
    /\ pc = "select"
    /\ schedule_pages' = SchedulePages(cfg, pages)
    /\ current_security_type' = None
    /\ page_pos' = 1
    /\ pc' = "page"
    /\ Mark("select")
    /\ UNCHANGED <<validator_vars, caller_vars>>
    /\ UNCHANGED <<cfg, fund_name, report_date, pages, width, height, boxes, col_idx, line_idx, page_fund_name,
                   holdings, current_country_iso3, pending_name_parts, pending_shares,
                   pending_value, pending_country_iso3, lines_left, origins,
                   pending_origin, col_starts, col_emitted>>

\* The head of the page loop: the page's fund name and its column boxes.
BeginPage ==
    /\ pc = "page"
    /\ page_pos <= Len(schedule_pages)
    /\ page_fund_name' = _guess_fund_name(PageText, fund_name)
    /\ boxes' = Boxes(cfg, width, height)
    /\ col_idx' = 0
    /\ pc' = "column"
    /\ Mark("page")
    /\ UNCHANGED <<validator_vars, caller_vars>>
    /\ UNCHANGED <<cfg, fund_name, report_date, pages, width, height, schedule_pages, page_pos, line_idx,
                   holdings, current_security_type, current_country_iso3,
                   pending_name_parts, pending_shares, pending_value,
                   pending_country_iso3, lines_left, origins, pending_origin,
                   col_starts, col_emitted>>

\* A column that starts with the country the last column left.
ColumnStartCountry_Kept ==
    current_country_iso3

\* The country a column scan starts with: none.
ColumnStartCountry ==
    None

\* A column loop whose pending record outlives the column: only the country and
\* the line position are fresh.
BeginColumn_KeepsPending ==
    /\ pc = "column"
    /\ col_idx < NumBoxes(cfg)
    /\ current_country_iso3' = ColumnStartCountry
    /\ line_idx' = 0
    /\ col_starts' = 0
    /\ col_emitted' = 0
    /\ pc' = "line"
    /\ Mark("column")
    /\ UNCHANGED <<validator_vars, caller_vars>>
    /\ UNCHANGED <<cfg, fund_name, report_date, pages, width, height, boxes, schedule_pages, page_pos, col_idx,
                   page_fund_name, holdings, current_security_type, lines_left, origins,
                   pending_name_parts, pending_shares, pending_value,
                   pending_country_iso3, pending_origin>>

\* The head of the column loop: the crop, and the state that is fresh per column.
BeginColumn ==
    /\ pc = "column"
    /\ col_idx < NumBoxes(cfg)
    /\ current_country_iso3' = ColumnStartCountry
    /\ pending_name_parts' = <<>>
    /\ pending_shares' = None
    /\ pending_value' = None
    /\ pending_country_iso3' = None
    /\ line_idx' = 0
    /\ pending_origin' = 0
    /\ col_starts' = 0
    /\ col_emitted' = 0
    /\ pc' = "line"
    /\ Mark("column")
    /\ UNCHANGED <<validator_vars, caller_vars>>
    /\ UNCHANGED <<cfg, fund_name, report_date, pages, width, height, boxes, schedule_pages, page_pos, col_idx,
                   page_fund_name, holdings, current_security_type, lines_left, origins>>

\* The Holdings `out` are appended; their source line is `line`.
Emit(out, line) ==
    /\ holdings' = holdings \o out
    /\ origins' = origins \o [i \in 1..Len(out) |-> <<PageIdx, col_idx, line>>]
    /\ col_emitted' = col_emitted + Len(out)

\* One pass of the line loop of the column.
ScanLine ==
    /\ pc = "line"
    /\ \E raw_line \in NextLines :
          LET o == LineStep(raw_line)
          IN  /\ Emit(o.out, IF cfg.layout_type = MULTILINE THEN pending_origin
                             ELSE line_idx)
              /\ current_security_type' = o.type
              /\ current_country_iso3' = o.country
              /\ pending_name_parts' = o.parts
              /\ pending_shares' = o.shares
              /\ pending_value' = o.value
              /\ pending_country_iso3' = o.pcountry
              /\ pending_origin' = IF o.kind = "start" THEN line_idx ELSE pending_origin
              /\ col_starts' = IF o.kind = "start" THEN col_starts + 1 ELSE col_starts
              /\ pc' = IF o.brk THEN "colend" ELSE "line"
              /\ last' = [kind |-> o.kind, raw |-> raw_line, emitted |-> Len(o.out)]
    /\ line_idx' = line_idx + 1
    /\ lines_left' = IF cfg.columns <= 1 THEN lines_left ELSE lines_left - 1
    /\ UNCHANGED <<validator_vars, caller_vars>>
    /\ UNCHANGED <<cfg, fund_name, report_date, pages, width, height, boxes, schedule_pages, page_pos, col_idx,
                   page_fund_name>>

\* A stop that ends the page: after a break the remaining columns of the page
\* are passed over.
EndColumn_StopEndsPage ==
    /\ pc = "colend" \/ (pc = "line" /\ TextExhausted)
    /\ LET out == IF cfg.layout_type = MULTILINE THEN FinalizeNow(current_security_type)
                  ELSE <<>>
       IN  /\ Emit(out, pending_origin)
           /\ last' = [kind |-> "colend", raw |-> <<>>, emitted |-> Len(out)]
    /\ col_idx' = IF pc = "colend" THEN NumBoxes(cfg) ELSE col_idx + 1
    /\ pc' = "column"
    /\ UNCHANGED <<validator_vars, caller_vars>>
    /\ UNCHANGED <<cfg, fund_name, report_date, pages, width, height, boxes, schedule_pages, page_pos, line_idx,
                   page_fund_name, current_security_type, current_country_iso3,
                   pending_name_parts, pending_shares, pending_value,
                   pending_country_iso3, lines_left, pending_origin, col_starts>>

\* The line loop is over (a break, or no line left): the multi-line mode
\* finalizes once more, and the column loop moves on.
EndColumn ==
    /\ pc = "colend" \/ (pc = "line" /\ TextExhausted)
    /\ LET out == IF cfg.layout_type = MULTILINE THEN FinalizeNow(current_security_type)
                  ELSE <<>>
       IN  /\ Emit(out, pending_origin)
           /\ last' = [kind |-> "colend", raw |-> <<>>, emitted |-> Len(out)]
    /\ col_idx' = col_idx + 1
    /\ pc' = "column"
    /\ UNCHANGED <<validator_vars, caller_vars>>
    /\ UNCHANGED <<cfg, fund_name, report_date, pages, width, height, boxes, schedule_pages, page_pos, line_idx,
                   page_fund_name, current_security_type, current_country_iso3,
                   pending_name_parts, pending_shares, pending_value,
                   pending_country_iso3, lines_left, pending_origin, col_starts>>

\* The column loop of the page is over.
EndPage ==
    /\ pc = "column"
    /\ col_idx >= NumBoxes(cfg)
    /\ page_pos' = page_pos + 1
    /\ pc' = "page"
    /\ Mark("pageend")
    /\ UNCHANGED <<validator_vars, caller_vars>>
    /\ UNCHANGED <<cfg, fund_name, report_date, pages, width, height, boxes, schedule_pages, col_idx, line_idx,
                   page_fund_name, holdings, current_security_type, current_country_iso3,
                   pending_name_parts, pending_shares, pending_value,
                   pending_country_iso3, lines_left, origins, pending_origin,
                   col_starts, col_emitted>>

\* return holdings
Return ==
    /\ pc = "page"
    /\ page_pos > Len(schedule_pages)
    /\ pc' = "done"
    /\ Mark("return")
    /\ UNCHANGED <<validator_vars, caller_vars>>
    /\ UNCHANGED <<cfg, fund_name, report_date, pages, width, height, boxes, schedule_pages, page_pos, col_idx,
                   line_idx, page_fund_name, holdings, current_security_type,
                   current_country_iso3, pending_name_parts, pending_shares,
                   pending_value, pending_country_iso3, lines_left, origins,
                   pending_origin, col_starts, col_emitted>>

Next ==
    \/ SelectPages
    \/ BeginPage
    \/ BeginColumn
    \/ ScanLine
    \/ EndColumn
    \/ EndPage
    \/ Return

Spec == Init /\ [][Next]_vars

\* Page selection alone, over documents of up to MaxSelectPages pages.
SelectInit ==
    /\ cfg \in Configs
    /\ pages \in SeqsUpTo(SelectionPages, MaxSelectPages)
    /\ width = PageWidth
    /\ height = PageHeight
    /\ Entry
    /\ NotValidating
    /\ NoCaller

SelectNext == SelectPages

SelectSpec == SelectInit /\ [][SelectNext]_vars

\* The column boxes alone: one header page of any size, layouts of 0 to
\* MaxColumns columns, up to the first page's boxes.
BoxWidths == {1, 7, 595, PageWidth}
BoxHeights == {1, PageHeight, 842}

BoxInit ==
    /\ cfg \in {Cfg("two_column_line_numeric", n, 0, 1) : n \in 0..MaxColumns}
    /\ pages = <<P_Cover>>
    /\ width \in BoxWidths
    /\ height \in BoxHeights
    /\ Entry
    /\ NotValidating
    /\ NoCaller

BoxNext ==
    \/ SelectPages
    \/ BeginPage

BoxSpec == BoxInit /\ [][BoxNext]_vars

\* ------------------------------------------------------ Holdings Validator

\* One finding of validate_holdings: the row of its "[row idx]" prefix (None for
\* a finding about the whole list), its wording, and the values it quotes.
Msg(row, text, detail) == [row |-> row, text |-> text, detail |-> detail]

\* The codes validate_holdings knows: the values of COUNTRY_TO_ISO3.
ValidIso3 == {COUNTRY_TO_ISO3[k][2] : k \in DOMAIN COUNTRY_TO_ISO3}

\* len(name.split()): the runs of non-whitespace of a name.
WordCount(name) ==
    Cardinality({i \in DOMAIN name :
        name[i] \notin Space /\ (i = 1 \/ name[i - 1] \in Space)})

\* A Holding as a caller of validate_holdings builds it.
HoldingRow(fund, name, date, country, shares, principal, value) ==
    [ fund_name     |-> fund,
      report_date   |-> date,
      security_name |-> name,
      security_type |-> None,
      country_iso3  |-> country,
      sector        |-> None,
      shares        |-> shares,
      principal     |-> principal,
      market_value  |-> value ]

\* The rows the lists handed to validate_holdings are made of: a clean row, a
\* row of -100 shares and nothing else, a row without numbers, a one-word name
\* with no date, an unknown country, zeros and a negative principal, a row
\* without names, a negative market value that cancels the clean row's, and a
\* name of blanks.
ValidatorRow ==
    << HoldingRow(S_DefaultFund, N_Acme, "2024-12-31", Some("CAN"),
                  Some(100), None, Some(1234)),
       HoldingRow(S_DefaultFund, N_Acme, "2024-12-31", None,
                  Some(-100), None, None),
       HoldingRow(S_DefaultFund, N_Acme, "2024-12-31", None,
                  None, None, None),
       HoldingRow(S_DefaultFund, <<"A","c","m","e">>, "", Some("XXX"),
                  Some(0), Some(-5), Some(0)),
       HoldingRow(<<>>, <<>>, "2024-12-31", None,
                  Some(100), None, Some(1234)),
       HoldingRow(S_DefaultFund, N_Acme, "2024-12-31", Some("CAN"),
                  Some(1), None, Some(-1234)),
       HoldingRow(S_DefaultFund, L_Blank, "2024-12-31", None,
                  Some(1), None, Some(1)) >>

\* An emptiness test that never fires.
EmptyInput_Never(hs) == FALSE

\* `not holdings`.
EmptyInput(hs) == hs = <<>>

\* A sign test that takes zero for negative.
IsNegative_OrZero(value) == value <= 0

\* `value < 0`.
IsNegative(value) == value < 0

\* A test of the numbers whose last comparison is turned around.
AllNumericAbsent_ValuePresent(h) ==
    h.shares = None /\ h.principal = None /\ h.market_value # None

\* The row has no shares, no principal and no market value.
AllNumericAbsent(h) ==
    h.shares = None /\ h.principal = None /\ h.market_value = None

\* A word test that takes two words for few.
FewWords_UpToTwo(name) == name # <<>> /\ WordCount(name) <= 2

\* The name is there and has fewer than two words.
FewWords(name) == name # <<>> /\ WordCount(name) < 2

\* A test of the total that lets zero pass.
NonPositive_Strict(total) == total < 0

\* `total_market_value <= 0`.
NonPositive(total) == total <= 0

\* The errors of one row, in the order the loop body appends them.
RowErrors(h, i) ==
    LET Negative(field) ==
            IF h[field] # None /\ IsNegative(h[field][1])
            THEN << Msg(Some(i), "is negative", <<field, h[field][1]>>) >>
            ELSE <<>>
    IN  (IF h.fund_name = <<>>
         THEN << Msg(Some(i), "fund_name is empty.", <<>>) >> ELSE <<>>)
        \o (IF h.security_name = <<>>
            THEN << Msg(Some(i), "security_name is empty.", <<>>) >> ELSE <<>>)
        \o Negative("shares") \o Negative("principal") \o Negative("market_value")

\* The warnings of one row, in the order the loop body appends them.
RowWarnings(h, i) ==
    (IF h.report_date = ""
     THEN << Msg(Some(i), "report_date is empty.", <<>>) >> ELSE <<>>)
    \o (IF AllNumericAbsent(h)
        THEN << Msg(Some(i), "no numeric value present", <<>>) >> ELSE <<>>)
    \o (IF h.country_iso3 # None /\ h.country_iso3[1] \notin ValidIso3
        THEN << Msg(Some(i), "not in the known ISO3 list", h.country_iso3) >>
        ELSE <<>>)
    \o (IF FewWords(h.security_name)
        THEN << Msg(Some(i), "has suspiciously few words", <<>>) >> ELSE <<>>)

\* validate_holdings up to its loop: an empty list is one error and the end.
ValidateEntry ==
    /\ v_pc = "entry"
    /\ IF EmptyInput(v_holdings)
       THEN /\ errors' = << Msg(None, "No holdings extracted.", <<>>) >>
            /\ v_pc' = "returned"
       ELSE /\ errors' = <<>>
            /\ v_pc' = "row"
    /\ warnings' = <<>>
    /\ v_idx' = 0
    /\ total_market_value' = 0
    /\ UNCHANGED v_holdings
    /\ UNCHANGED <<extractor_vars, caller_vars>>

\* A pass that cleans the row it reports: a negative market_value is blanked
\* in the caller's list.
ValidateRow_Cleans ==
    /\ v_pc = "row"
    /\ v_idx < Len(v_holdings)
    /\ LET h == v_holdings[v_idx + 1]
       IN  /\ errors' = errors \o RowErrors(h, v_idx)
           /\ warnings' = warnings \o RowWarnings(h, v_idx)
           /\ total_market_value' =
                  IF h.market_value # None
                  THEN total_market_value + h.market_value[1]
                  ELSE total_market_value
           /\ v_holdings' =
                  IF h.market_value # None /\ h.market_value[1] < 0
                  THEN [v_holdings EXCEPT ![v_idx + 1].market_value = None]
                  ELSE v_holdings
    /\ v_idx' = v_idx + 1
    /\ UNCHANGED v_pc
    /\ UNCHANGED <<extractor_vars, caller_vars>>

\* One pass of the loop over the rows.
ValidateRow ==
    /\ v_pc = "row"
    /\ v_idx < Len(v_holdings)
    /\ LET h == v_holdings[v_idx + 1]
       IN  /\ errors' = errors \o RowErrors(h, v_idx)
           /\ warnings' = warnings \o RowWarnings(h, v_idx)
           /\ total_market_value' =
                  IF h.market_value # None
                  THEN total_market_value + h.market_value[1]
                  ELSE total_market_value
    /\ v_idx' = v_idx + 1
    /\ UNCHANGED <<v_holdings, v_pc>>
    /\ UNCHANGED <<extractor_vars, caller_vars>>

\* After the loop: the check of the total, and the return.
ValidateTotal ==
    /\ v_pc = "row"
    /\ v_idx = Len(v_holdings)
    /\ warnings' =
           IF NonPositive(total_market_value)
           THEN Append(warnings,
                       Msg(None, "Total market_value is non-positive", <<>>))
           ELSE warnings
    /\ v_pc' = "returned"
    /\ UNCHANGED <<v_holdings, v_idx, errors, total_market_value>>
    /\ UNCHANGED <<extractor_vars, caller_vars>>

\* validate_holdings alone, on every list of up to MaxRows rows.
ValidatorInit ==
    /\ cfg = Cfg("one_column_line_numeric", 1, 0, 1)
    /\ pages = <<>>
    /\ width = PageWidth
    /\ height = PageHeight
    /\ Entry
    /\ v_holdings \in SeqsUpTo(Range(ValidatorRow), MaxRows)
    /\ v_pc = "entry"
    /\ v_idx = 0
    /\ errors = <<>>
    /\ warnings = <<>>
    /\ total_market_value = 0
    /\ NoCaller

ValidatorNext ==
    \/ ValidateEntry
    \/ ValidateRow
    \/ ValidateTotal

ValidatorSpec == ValidatorInit /\ [][ValidatorNext]_vars

\* ------------------------------------------------------------------ main

\* "Acme Growth Fund", "AcmeGrowthFund", "Other Fund": fund name patterns.
S_Pattern ==
    <<"A","c","m","e"," ","G","r","o","w","t","h"," ","F","u","n","d">>
S_PatternCompact ==
    <<"A","c","m","e","G","r","o","w","t","h","F","u","n","d">>
S_PatternOther ==
    <<"O","t","h","e","r"," ","F","u","n","d">>

\* "acme", "compact", "bare", "other", "missing": layout ids.
S_IdAcme == <<"a","c","m","e">>
S_IdCompact == <<"c","o","m","p","a","c","t">>
S_IdBare == <<"b","a","r","e">>
S_IdOther == <<"o","t","h","e","r">>
S_IdMissing == <<"m","i","s","s","i","n","g">>

\* One parsed file of configs/: yaml.safe_load of a layout record.  A key the
\* file does not have is None, a key it has is Some(value).
Raw(id, patterns, header, type) ==
    [ id                 |-> id,
      fund_name_patterns |-> patterns,
      schedule_header    |-> header,
      layout             |-> Some([ type               |-> type,
                                    columns            |-> None,
                                    shares_token_index |-> None,
                                    value_token_index  |-> Some(1) ]),
      instrument_headers |-> Some(<< <<S_CommonStocks, "Common Stock">> >>),
      stop_line_prefixes |-> None,
      stop_line_contains |-> Some(<<S_TotalInv>>),
      noise_prefixes     |-> None ]

\* The files configs/ can hold: a layout whose pattern is the fund name as
\* printed, one whose second pattern is the name without spaces, one with no
\* patterns, one for another fund, one without id, one without layout type.
RawRecords ==
    { Raw(Some(S_IdAcme), Some(<<S_Pattern>>), Some(S_Header),
          Some("one_column_line_numeric")),
      Raw(Some(S_IdCompact), Some(<<S_PatternOther, S_PatternCompact>>),
          Some(S_Header), Some("one_column_line_numeric")),
      Raw(Some(S_IdBare), None, Some(S_Header), Some("one_column_line_numeric")),
      Raw(Some(S_IdOther), Some(<<S_PatternOther>>), Some(S_Header),
          Some("one_column_line_numeric")),
      Raw(None, Some(<<S_Pattern>>), Some(S_Header),
          Some("one_column_line_numeric")),
      Raw(Some(S_IdAcme), Some(<<S_Pattern>>), Some(S_Header), None) }

\* raw.get(key, default)
Get(opt, default) == IF opt = None THEN default ELSE opt[1]

\* raw["id"], raw["schedule_header"], raw["layout"] or raw["layout"]["type"]
\* raises KeyError.
Malformed(raw) ==
    \/ raw.id = None
    \/ raw.schedule_header = None
    \/ raw.layout = None
    \/ raw.layout[1].type = None

\* LayoutConfig(id=raw["id"], ...)
LayoutConfig(raw) ==
    [ id                 |-> raw.id[1],
      fund_name_patterns |-> Get(raw.fund_name_patterns, <<>>),
      schedule_header    |-> raw.schedule_header[1],
      layout_type        |-> raw.layout[1].type[1],
      columns            |-> Get(raw.layout[1].columns, 1),
      shares_token_index |-> Get(raw.layout[1].shares_token_index, 0),
      value_token_index  |-> Get(raw.layout[1].value_token_index, 1),
      instrument_headers |-> Get(raw.instrument_headers, <<>>),
      stop_line_prefixes |-> Get(raw.stop_line_prefixes, <<>>),
      stop_line_contains |-> Get(raw.stop_line_contains, <<>>),
      noise_prefixes     |-> Get(raw.noise_prefixes, <<>>) ]

\* load_layout_configs on the parsed files in path order: the first file that
\* lacks a required key raises KeyError out of the function, and the list built
\* so far is lost with it.
load_layout_configs(raws) ==
    IF \E i \in DOMAIN raws : Malformed(raws[i])
    THEN [raised |-> "KeyError", configs |-> <<>>]
    ELSE [raised |-> "", configs |-> [i \in DOMAIN raws |-> LayoutConfig(raws[i])]]

\* pattern.search(text) with re.IGNORECASE, for a pattern without
\* metacharacters.
PatternFound(patt, text) == Contains(LowerStr(text), LowerStr(patt))

\* A pattern test that forgets the text without spaces.
ConfigMatches_RawOnly(c, text) ==
    \E k \in DOMAIN c.fund_name_patterns :
        PatternFound(c.fund_name_patterns[k], text)

\* One of the layout's patterns is found in the text or in text.replace(" ", "").
ConfigMatches(c, text) ==
    \E k \in DOMAIN c.fund_name_patterns :
        \/ PatternFound(c.fund_name_patterns[k], text)
        \/ PatternFound(c.fund_name_patterns[k], ReplaceBlank(text))

detect_config_for_pdf(text, cfgs) ==
    IF \E i \in DOMAIN cfgs : ConfigMatches(cfgs[i], text)
    THEN Some(cfgs[CHOOSE i \in DOMAIN cfgs :
                /\ ConfigMatches(cfgs[i], text)
                /\ \A j \in 1..(i - 1) : ~ConfigMatches(cfgs[j], text)])
    ELSE None

\* A selection that tries the patterns when the forced id is not there.
SelectConfig_FallBack(fid, text, cfgs) ==
    IF fid # None /\ fid[1] # <<>>
          /\ \E i \in DOMAIN cfgs : cfgs[i].id = fid[1]
    THEN Some(cfgs[CHOOSE i \in DOMAIN cfgs :
                /\ cfgs[i].id = fid[1]
                /\ \A j \in 1..(i - 1) : cfgs[j].id # fid[1]])
    ELSE detect_config_for_pdf(text, cfgs)

\* The layout main works with: the first one with the forced id when an id is
\* forced, else the detected one; None is the SystemExit.
SelectConfig(fid, text, cfgs) ==
    IF fid # None /\ fid[1] # <<>>
    THEN IF \E i \in DOMAIN cfgs : cfgs[i].id = fid[1]
         THEN Some(cfgs[CHOOSE i \in DOMAIN cfgs :
                     /\ cfgs[i].id = fid[1]
                     /\ \A j \in 1..(i - 1) : cfgs[j].id # fid[1]])
         ELSE None
    ELSE detect_config_for_pdf(text, cfgs)

\* page.extract_text() or "": the lines of a page, joined.
PageString(p) == Join(p, <<"\n">>)

\* "\n".join(page.extract_text() or "" for page in pdf.pages[:3])
text_first_pages(doc) ==
    Join([i \in 1..(IF Len(doc) < 3 THEN Len(doc) ELSE 3) |-> PageString(doc[i])],
         <<"\n">>)

\* One of the first five pages has text that is not all whitespace.
has_text(doc) ==
    \E i \in DOMAIN doc : i <= 5 /\ \E k \in DOMAIN doc[i] : Strip(doc[i][k]) # <<>>

\* The month names of the date pattern, each with its month_map number.
MONTHS ==
    <<
       << <<"J","a","n","u","a","r","y">>,
          <<"0","1">> >>,
       << <<"F","e","b","r","u","a","r","y">>,
          <<"0","2">> >>,
       << <<"M","a","r","c","h">>,
          <<"0","3">> >>,
       << <<"A","p","r","i","l">>,
          <<"0","4">> >>,
       << <<"M","a","y">>,
          <<"0","5">> >>,
       << <<"J","u","n","e">>,
          <<"0","6">> >>,
       << <<"J","u","l","y">>,
          <<"0","7">> >>,
       << <<"A","u","g","u","s","t">>,
          <<"0","8">> >>,
       << <<"S","e","p","t","e","m","b","e","r">>,
          <<"0","9">> >>,
       << <<"O","c","t","o","b","e","r">>,
          <<"1","0">> >>,
       << <<"N","o","v","e","m","b","e","r">>,
          <<"1","1">> >>,
       << <<"D","e","c","e","m","b","e","r">>,
          <<"1","2">> >>
    >>

\* \s* from the zero-based offset i on: the offset where it ends.
RECURSIVE SkipSpace(_, _)
SkipSpace(s, i) ==
    IF i < Len(s) /\ s[i + 1] \in Space \cup {"\n"} THEN SkipSpace(s, i + 1) ELSE i

\* The date pattern (month)\s*(\d{1,2}),\s*(\d{4}) matched at the zero-based
\* offset i with month k, any case (low is s in lower case): <<k, day, year>>,
\* or None.
DateAt(s, low, i, k) ==
    IF ~OccursAt(low, LowerStr(MONTHS[k][1]), i) THEN None
    ELSE LET d == SkipSpace(s, i + Len(MONTHS[k][1]))
             n == IF d + 2 < Len(s) /\ s[d + 1] \in Digit /\ s[d + 2] \in Digit
                        /\ s[d + 3] = ","
                  THEN 2
                  ELSE IF d + 1 < Len(s) /\ s[d + 1] \in Digit /\ s[d + 2] = ","
                  THEN 1 ELSE 0
             y == SkipSpace(s, d + n + 1)
         IN  IF n > 0 /\ y + 4 <= Len(s)
                   /\ \A j \in 1..4 : s[y + j] \in Digit
             THEN Some(<<k, SubSeq(s, d + 1, d + n), SubSeq(s, y + 1, y + 4)>>)
             ELSE None

\* The date pattern matched at the zero-based offset i or, failing that, at the
\* next offset where it matches: the leftmost match from i on, or None.
RECURSIVE DateFrom(_, _, _)
DateFrom(s, low, i) ==
    IF i >= Len(s) THEN None
    ELSE IF \E k \in DOMAIN MONTHS : DateAt(s, low, i, k) # None
    THEN DateAt(s, low, i, CHOOSE k \in DOMAIN MONTHS : DateAt(s, low, i, k) # None)
    ELSE DateFrom(s, low, i + 1)

\* re.search of the date pattern: the leftmost match, or None.
DateMatch(s) == DateFrom(s, LowerStr(s), 0)

\* str(int(day))
DayText(day) == IF Len(day) = 2 /\ day[1] = "0" THEN <<day[2]>> ELSE day

\* raw_date: f"{month.title()} {int(day)}, {year}", or "".
raw_date(s) ==
    LET m == DateMatch(s)
    IN  IF m = None THEN <<>>
        ELSE MONTHS[m[1][1]][1] \o <<" ">> \o DayText(m[1][2]) \o <<",", " ">> \o m[1][3]

\* date_tag: f"{year}{mm}{int(day):02d}", or "unknown-date".
date_tag(s) ==
    LET m == DateMatch(s)
    IN  IF m = None THEN <<"u","n","k","n","o","w","n","-","d","a","t","e">>
        ELSE m[1][3] \o MONTHS[m[1][1]][2]
             \o (IF Len(m[1][2]) = 1 THEN <<"0">> \o m[1][2] ELSE m[1][2])

\* Path(args.pdf).stem
S_Stem == <<"r","e","p","o","r","t">>

\* out_dir / f"{cfg.id}_{date_tag}_{stem}" with its suffix.
OutPath(c, s, suffix) ==
    <<"o","u","t","p","u","t","/">> \o c.id \o <<"_">> \o date_tag(s) \o <<"_">> \o S_Stem \o suffix

\* The forced layout ids: none, one that is configured, one that is not.
FundIds == {None, Some(S_IdCompact), Some(S_IdMissing)}

\* main up to the text check: a document without text ends the run.
MainStart ==
    /\ m_pc = "start"
    /\ IF has_text(pages)
       THEN m_pc' = "load" /\ m_exit' = None
       ELSE m_pc' = "exit" /\ m_exit' = Some("SystemExit: image-based")
    /\ UNCHANGED <<fund_id, raw_configs, configs, m_fs>>
    /\ UNCHANGED <<extractor_vars, validator_vars, call_vars, rerun_vars>>

\* configs = load_layout_configs(config_dir)
MainLoad ==
    /\ m_pc = "load"
    /\ LET r == load_layout_configs(raw_configs)
       IN  IF r.raised = ""
           THEN m_pc' = "select" /\ configs' = r.configs /\ m_exit' = None
           ELSE m_pc' = "exit" /\ configs' = <<>> /\ m_exit' = Some(r.raised)
    /\ UNCHANGED <<fund_id, raw_configs, m_fs>>
    /\ UNCHANGED <<extractor_vars, validator_vars, call_vars, rerun_vars>>

\* The choice of the layout: without one the run ends.
MainSelect ==
    /\ m_pc = "select"
    /\ LET c == SelectConfig(fund_id, text_first_pages(pages), configs)
       IN  IF c # None
           THEN m_pc' = "selected" /\ cfg' = c[1] /\ m_exit' = None
           ELSE /\ m_pc' = "exit"
                /\ cfg' = None
                /\ m_exit' = IF fund_id # None /\ fund_id[1] # <<>>
                             THEN Some("SystemExit: no configuration for fund id")
                             ELSE Some("SystemExit: unable to detect fund layout")
    /\ UNCHANGED <<fund_id, raw_configs, configs, m_fs>>
    /\ UNCHANGED <<fund_name, report_date, pages, width, height, boxes, pc,
                   schedule_pages, page_pos, col_idx, line_idx, page_fund_name,
                   holdings, current_security_type, current_country_iso3,
                   pending_name_parts, pending_shares, pending_value,
                   pending_country_iso3, lines_left, origins, pending_origin,
                   col_starts, col_emitted, last>>
    /\ UNCHANGED <<validator_vars, call_vars, rerun_vars>>

\* extract_with_layout is entered: its locals are fresh.
\* A list of Holdings that outlives the call: each run starts with the
\* Holdings of the run before it.
HoldingsAtEntry_Kept == holdings

\* holdings: List[Holding] = [], a new list in every call.
HoldingsAtEntry == <<>>

EnterExtract ==
    /\ pc' = "select"
    /\ schedule_pages' = <<>>
    /\ page_pos' = 0
    /\ col_idx' = 0
    /\ line_idx' = 0
    /\ page_fund_name' = <<>>
    /\ holdings' = HoldingsAtEntry
    /\ current_security_type' = None
    /\ current_country_iso3' = None
    /\ pending_name_parts' = <<>>
    /\ pending_shares' = None
    /\ pending_value' = None
    /\ pending_country_iso3' = None
    /\ lines_left' = MaxDocLines
    /\ origins' = <<>>
    /\ pending_origin' = 0
    /\ col_starts' = 0
    /\ col_emitted' = 0
    /\ last' = [kind |-> "init", raw |-> <<>>, emitted |-> 0]
    /\ boxes' = <<>>

\* Fund name, report date and output directory, then the call of
\* extract_with_layout.
MainCall ==
    /\ m_pc = "selected"
    /\ fund_name' = cfg.id
    /\ report_date' = raw_date(text_first_pages(pages))
    /\ m_fs' = Append(m_fs, [path |-> <<"o","u","t","p","u","t","/">>, data |-> <<>>])
    /\ EnterExtract
    /\ m_pc' = "extract"
    /\ UNCHANGED <<cfg, pages, width, height>>
    /\ UNCHANGED <<fund_id, raw_configs, configs, m_exit>>
    /\ UNCHANGED <<validator_vars, call_vars, rerun_vars>>

\* extract_with_layout has returned: the JSON and the CSV file are written.
MainWrite ==
    /\ m_pc = "extract"
    /\ pc = "done"
    /\ LET s == text_first_pages(pages)
       IN  m_fs' = m_fs \o
               << [path |-> OutPath(cfg, s, <<".","j","s","o","n">>), data |-> holdings],
                  [path |-> OutPath(cfg, s, <<".","c","s","v">>), data |-> holdings] >>
    /\ m_pc' = "done"
    /\ UNCHANGED <<fund_id, raw_configs, configs, m_exit>>
    /\ UNCHANGED <<extractor_vars, validator_vars, call_vars, rerun_vars>>

\* main on every document of MainDocs, with every configs/ of up to MaxConfigs
\* files and every forced id.
MainInit ==
    /\ raw_configs \in SeqsUpTo(RawRecords, MaxConfigs)
    /\ pages \in MainDocs
    /\ fund_id \in FundIds
    /\ cfg = None
    /\ width = PageWidth
    /\ height = PageHeight
    /\ fund_name = <<>>
    /\ report_date = <<>>
    /\ pc = "idle"
    /\ schedule_pages = <<>>
    /\ page_pos = 0
    /\ col_idx = 0
    /\ line_idx = 0
    /\ page_fund_name = <<>>
    /\ holdings = <<>>
    /\ current_security_type = None
    /\ current_country_iso3 = None
    /\ pending_name_parts = <<>>
    /\ pending_shares = None
    /\ pending_value = None
    /\ pending_country_iso3 = None
    /\ lines_left = 0
    /\ origins = <<>>
    /\ pending_origin = 0
    /\ col_starts = 0
    /\ col_emitted = 0
    /\ last = [kind |-> "init", raw |-> <<>>, emitted |-> 0]
    /\ boxes = <<>>
    /\ NotValidating
    /\ m_pc = "start"
    /\ configs = <<>>
    /\ m_exit = None
    /\ m_fs = <<>>
    /\ fn = "none"
    /\ fn_arg = <<>>
    /\ fn_result = <<>>
    /\ queue = <<>>
    /\ results = <<>>

MainNext ==
    \/ MainStart
    \/ MainLoad
    \/ MainSelect
    \/ MainCall
    \/ SelectPages
    \/ BeginPage
    \/ BeginColumn
    \/ ScanLine
    \/ EndColumn
    \/ EndPage
    \/ Return
    \/ MainWrite

MainSpec == MainInit /\ [][MainNext]_vars

\* ------------------------------------------- helpers called on their own

\* "UnitedKingdom—15.7%"
H_UnitedKingdom ==
    <<"U","n","i","t","e","d","K","i","n","g","d","o","m","U+2014","1","5",".","7","%">>

\* "United Kingdom—15.7%"
H_UnitedKingdomSpaced ==
    <<"U","n","i","t","e","d"," ","K","i","n","g","d","o","m","U+2014","1","5",".","7","%">>

\* "United  Kingdom—3%"
H_UnitedKingdomWide ==
    <<"U","n","i","t","e","d"," "," ","K","i","n","g","d","o","m","U+2014","3","%">>

\* "United\tKingdom—3%"
H_UnitedKingdomTab ==
    <<"U","n","i","t","e","d","\t","K","i","n","g","d","o","m","U+2014","3","%">>

\* "Brazil–5.4%"
H_BrazilEnDash ==
    <<"B","r","a","z","i","l","U+2013","5",".","4","%">>

\* "Sweden - 1.0%"
H_SwedenHyphen ==
    <<"S","w","e","d","e","n"," ","-"," ","1",".","0","%">>

\* "Sweden—1% Canada—2%"
H_SwedenCanada ==
    <<"S","w","e","d","e","n","U+2014","1","%"," ","C","a","n","a","d","a","U+2014","2","%">>

\* "XCanada—5%"
H_XCanada ==
    <<"X","C","a","n","a","d","a","U+2014","5","%">>

\* "Canadas—5%"
H_Canadas ==
    <<"C","a","n","a","d","a","s","U+2014","5","%">>

\* "Canada 6.5%"
H_CanadaNoDash ==
    <<"C","a","n","a","d","a"," ","6",".","5","%">>

\* "canada—6.5%"
H_LowerCanada ==
    <<"c","a","n","a","d","a","U+2014","6",".","5","%">>

\* "Canada \t—6%"
H_CanadaTabDash ==
    <<"C","a","n","a","d","a"," ","\t","U+2014","6","%">>

\* "Korea—1%"
H_Korea ==
    <<"K","o","r","e","a","U+2014","1","%">>

\* "South Korea—1%"
H_SouthKorea ==
    <<"S","o","u","t","h"," ","K","o","r","e","a","U+2014","1","%">>

\* "Hong Kong — 2%"
H_HongKong ==
    <<"H","o","n","g"," ","K","o","n","g"," ","U+2014"," ","2","%">>

\* "Peru—1%"
H_Peru ==
    <<"P","e","r","u","U+2014","1","%">>

\* "Slovenia-0.1%"
H_Slovenia ==
    <<"S","l","o","v","e","n","i","a","-","0",".","1","%">>

\* "AssaAbloyAB,ClassB"
H_Assa ==
    <<"A","s","s","a","A","b","l","o","y","A","B",",","C","l","a","s","s","B">>

\* "Assa Abloy AB, Class B"
H_AssaNormal ==
    <<"A","s","s","a"," ","A","b","l","o","y"," ","A","B",","," ","C","l","a","s","s"," ","B">>


\* Characters of the names handed to _normalize_name on its own.
MaxNameLen == 4
\* Characters of the texts handed to _parse_number on its own.
MaxNumberLen == 3

NameChars == {"a", "B", "C", ",", " ", "\t", "1"}
NumberChars == {"0", "1", ",", "$", "*", Dagger, "-", "+", EmDash, " ", "x"}

\* The lines handed to country_heading_to_iso3 on its own.
Headings ==
    {L_Canada, L_TotalCanada, L_Acme, <<>>, H_UnitedKingdom,
     H_UnitedKingdomSpaced,
     H_UnitedKingdomWide,
     H_UnitedKingdomTab,
     H_BrazilEnDash,
     H_SwedenHyphen,
     H_SwedenCanada,
     H_XCanada,
     H_Canadas,
     H_CanadaNoDash,
     H_LowerCanada,
     H_CanadaTabDash,
     H_Korea,
     H_SouthKorea,
     H_HongKong,
     H_Peru,
     H_Slovenia}

\* The names handed to _normalize_name on its own.
Names == SeqsUpTo(NameChars, MaxNameLen) \cup {H_Assa, H_AssaNormal}

\* The texts handed to _parse_number on its own.
NumberTexts == SeqsUpTo(NumberChars, MaxNumberLen)

\* One helper is called on one argument; fn_result is empty until it has
\* returned and holds the returned value afterwards (the normalizer can be called
\* once more, on what it returned: fn_result then holds both values).
CallInit ==
    /\ fn \in {"country_heading_to_iso3", "_normalize_name", "_parse_number"}
    /\ fn_arg \in CASE fn = "country_heading_to_iso3" -> Headings
                  [] fn = "_normalize_name" -> Names
                  [] OTHER -> NumberTexts
    /\ fn_result = <<>>
    /\ cfg = None
    /\ pages = <<>>
    /\ width = PageWidth
    /\ height = PageHeight
    /\ fund_name = <<>>
    /\ report_date = <<>>
    /\ pc = "idle"
    /\ schedule_pages = <<>>
    /\ page_pos = 0
    /\ col_idx = 0
    /\ line_idx = 0
    /\ page_fund_name = <<>>
    /\ holdings = <<>>
    /\ current_security_type = None
    /\ current_country_iso3 = None
    /\ pending_name_parts = <<>>
    /\ pending_shares = None
    /\ pending_value = None
    /\ pending_country_iso3 = None
    /\ lines_left = 0
    /\ origins = <<>>
    /\ pending_origin = 0
    /\ col_starts = 0
    /\ col_emitted = 0
    /\ last = [kind |-> "init", raw |-> <<>>, emitted |-> 0]
    /\ boxes = <<>>
    /\ NotValidating
    /\ m_pc = "idle"
    /\ fund_id = None
    /\ raw_configs = <<>>
    /\ configs = <<>>
    /\ m_exit = None
    /\ m_fs = <<>>
    /\ queue = <<>>
    /\ results = <<>>

CallCountry ==
    /\ fn = "country_heading_to_iso3"
    /\ fn_result = <<>>
    /\ fn_result' = <<country_heading_to_iso3(fn_arg)>>
    /\ UNCHANGED <<fn, fn_arg, extractor_vars, validator_vars, main_vars, rerun_vars>>

CallNormalize ==
    /\ fn = "_normalize_name"
    /\ fn_result = <<>>
    /\ fn_result' = <<_normalize_name(fn_arg)>>
    /\ UNCHANGED <<fn, fn_arg, extractor_vars, validator_vars, main_vars, rerun_vars>>

\* The normalizer called again, on the name it returned.
CallNormalizeAgain ==
    /\ fn = "_normalize_name"
    /\ Len(fn_result) = 1
    /\ fn_result' = fn_result \o <<_normalize_name(fn_result[1])>>
    /\ UNCHANGED <<fn, fn_arg, extractor_vars, validator_vars, main_vars, rerun_vars>>

CallParseNumber ==
    /\ fn = "_parse_number"
    /\ fn_result = <<>>
    /\ fn_result' = <<_parse_number(fn_arg)>>
    /\ UNCHANGED <<fn, fn_arg, extractor_vars, validator_vars, main_vars, rerun_vars>>

CallNext ==
    \/ CallCountry
    \/ CallNormalize
    \/ CallNormalizeAgain
    \/ CallParseNumber

CallSpec == CallInit /\ [][CallNext]_vars

\* --------------------------------------- several documents, one process

\* Calls of extract_with_layout one process makes, one after the other.
MaxRuns == 3

Job(c, doc, name) == [cfg |-> c, pages |-> doc, fund_name |-> name]

\* The calls: one-column layouts, whose page text is the whole input.
Jobs ==
    { Job(Cfg("one_column_line_numeric", 1, 0, 1), <<P_Scenario>>, S_DefaultFund),
      Job(Cfg("one_column_line_numeric", 1, 0, 1), <<P_Scenario, P_Continued>>, S_DefaultFund),
      Job(Cfg("one_column_line_numeric", 1, 0, 1), <<P_Scenario>>, S_IdAcme),
      Job(Cfg(MULTILINE, 1, 0, 1), <<P_Scenario>>, S_DefaultFund),
      Job(Cfg(MULTILINE, 1, 0, 1), <<P_Multi>>, S_DefaultFund) }

\* The process calls extract_with_layout for the next job.
RerunCall ==
    /\ pc \in {"idle", "returned"}
    /\ queue # <<>>
    /\ cfg' = Head(queue).cfg
    /\ pages' = Head(queue).pages
    /\ fund_name' = Head(queue).fund_name
    /\ report_date' = "2024-12-31"
    /\ queue' = Tail(queue)
    /\ EnterExtract
    /\ UNCHANGED <<width, height, results>>
    /\ UNCHANGED <<validator_vars, main_vars, call_vars>>

\* extract_with_layout has returned: the process keeps the Holdings.
RerunCollect ==
    /\ pc = "done"
    /\ results' = Append(results, [job |-> Job(cfg, pages, fund_name), holdings |-> holdings])
    /\ pc' = "returned"
    /\ UNCHANGED <<cfg, fund_name, report_date, pages, width, height, boxes, schedule_pages,
                   page_pos, col_idx, line_idx, page_fund_name, holdings,
                   current_security_type, current_country_iso3, pending_name_parts,
                   pending_shares, pending_value, pending_country_iso3, lines_left,
                   origins, pending_origin, col_starts, col_emitted, last>>
    /\ UNCHANGED <<queue, validator_vars, main_vars, call_vars>>

RerunInit ==
    /\ queue \in SeqsUpTo(Jobs, MaxRuns)
    /\ results = <<>>
    /\ cfg = None
    /\ pages = <<>>
    /\ width = PageWidth
    /\ height = PageHeight
    /\ fund_name = <<>>
    /\ report_date = <<>>
    /\ pc = "idle"
    /\ schedule_pages = <<>>
    /\ page_pos = 0
    /\ col_idx = 0
    /\ line_idx = 0
    /\ page_fund_name = <<>>
    /\ holdings = <<>>
    /\ current_security_type = None
    /\ current_country_iso3 = None
    /\ pending_name_parts = <<>>
    /\ pending_shares = None
    /\ pending_value = None
    /\ pending_country_iso3 = None
    /\ lines_left = 0
    /\ origins = <<>>
    /\ pending_origin = 0
    /\ col_starts = 0
    /\ col_emitted = 0
    /\ last = [kind |-> "init", raw |-> <<>>, emitted |-> 0]
    /\ boxes = <<>>
    /\ NotValidating
    /\ m_pc = "idle"
    /\ fund_id = None
    /\ raw_configs = <<>>
    /\ configs = <<>>
    /\ m_exit = None
    /\ m_fs = <<>>
    /\ fn = "none"
    /\ fn_arg = <<>>
    /\ fn_result = <<>>

RerunNext ==
    \/ RerunCall
    \/ SelectPages
    \/ BeginPage
    \/ BeginColumn
    \/ ScanLine
    \/ EndColumn
    \/ EndPage
    \/ Return
    \/ RerunCollect

RerunSpec == RerunInit /\ [][RerunNext]_vars

\* ------------------------------------------------------------- claims

\* The step is one pass of a line loop; the line it read is last'.raw.
ScanStep == pc = "line" /\ line_idx' = line_idx + 1

\* The Holdings a step appends.
NewHoldings == SubSeq(holdings', Len(holdings) + 1, Len(holdings'))

SingleLineMode == cfg.layout_type # MULTILINE
MultiLineMode == cfg.layout_type = MULTILINE

\* The layout of the end-to-end scenario: one column, single-line mode, the
\* default token positions, "TOTAL INVESTMENTS" a stop substring.
ScenarioLayout ==
    /\ cfg.layout_type = "one_column_line_numeric"
    /\ cfg.columns = 1
    /\ cfg.shares_token_index = 0
    /\ cfg.value_token_index = 1
    /\ cfg.schedule_header = S_Header
    /\ \E k \in DOMAIN cfg.stop_line_contains : cfg.stop_line_contains[k] = S_TotalInv

\* C1: the end-to-end scenario.  The one page "Schedule of Investments",
\* "Canada—6.5%", "Acme Corp 100 1,234", "TOTAL INVESTMENTS", with or without a
\* further line after it, yields exactly one Holding: Acme Corp, CAN, 100, 1234.
C1_EndToEndScenario ==
    (pc = "done" /\ ScenarioLayout /\ pages \in {<<P_Scenario>>, <<P_ScenarioMore>>}) =>
        /\ Len(holdings) = 1
        /\ holdings[1].security_name = N_Acme
        /\ holdings[1].country_iso3 = Some("CAN")
        /\ holdings[1].shares = Some(100)
        /\ holdings[1].market_value = Some(1234)

\* The scenario with a holding line after the TOTAL line has run to its end.
C1_Witness ==
    pc = "done" /\ ScenarioLayout /\ pages = <<P_ScenarioMore>> /\ Len(holdings) = 1

\* a comes before b in (page, column, line) order.
LexLess(a, b) ==
    \/ a[1] < b[1]
    \/ a[1] = b[1] /\ a[2] < b[2]
    \/ a[1] = b[1] /\ a[2] = b[2] /\ a[3] < b[3]

\* C2: the output keeps source order.  Of any two Holdings, the one earlier in
\* the output comes from an earlier (page, column, line) position.
C2_SourceOrder ==
    \A i, j \in DOMAIN origins : i < j => LexLess(origins[i], origins[j])

\* C3: once a line of a column satisfies a stop condition, no later line of the
\* column is examined.  The line loop is left at once; in a one-column document
\* no line before the one being read, and no line up to a Holding's source line,
\* is a stop line; and until the next column starts nothing changes the current
\* country, the current type or the pending record, and no record starts.
C3_State ==
    /\ last.kind = "stop" => pc = "colend"
    /\ (cfg.columns <= 1 /\ pc \in {"line", "colend"}) =>
          \A k \in 1..(line_idx - 1) : ~IsStopLine(Strip(PageText[k]))
    /\ cfg.columns <= 1 =>
          \A i \in DOMAIN origins :
             \A k \in 1..(origins[i][3] + 1) :
                ~IsStopLine(Strip(pages[origins[i][1] + 1][k]))

C3_Step ==
    pc = "colend" =>
        /\ pc' = "column"
        /\ UNCHANGED <<current_security_type, current_country_iso3, pending_name_parts,
                       pending_shares, pending_value, pending_country_iso3, col_starts,
                       line_idx>>

C3_NoLineAfterStop == []C3_State /\ [][C3_Step]_vars

\* A stop line of the multi-line mode has ended the scan of a one-column page
\* that holds further lines.
C3_Witness ==
    /\ MultiLineMode
    /\ cfg.columns <= 1
    /\ pc = "colend"
    /\ last.kind = "stop"
    /\ line_idx < Len(PageText)

\* C4: in multi-line mode every pending record becomes a Holding at most once.
\* In every column the Holdings emitted are at most the record-start lines read.
C4_AtMostOncePerRecord == MultiLineMode => col_emitted <= col_starts

\* finalize_pending() runs in this step.
FinalizeRuns ==
    /\ MultiLineMode
    /\ \/ pc \in {"line", "colend"} /\ pc' = "column"
       \/ ScanStep /\ last'.kind \in {"marker", "stop", "start"}

\* C5: in multi-line mode finalize emits a Holding only if shares, value and a
\* name fragment are all present; without shares or value it emits none.
C5_FinalizeNeedsAll ==
    [][(FinalizeRuns /\ (pending_shares = None \/ pending_value = None
                            \/ pending_name_parts = <<>>))
          => holdings' = holdings]_vars

\* The end-of-column finalize has run on a record with shares and a name
\* fragment and no value, and the column has emitted nothing.
C5_Witness ==
    /\ MultiLineMode
    /\ last.kind = "colend"
    /\ pending_shares # None
    /\ pending_value = None
    /\ pending_name_parts # <<>>
    /\ col_emitted = 0

\* The numeric tokens of a line, counted from its text: the maximal runs of
\* digits and commas that hold a digit.
NumTokens(line) ==
    Cardinality({i \in DOMAIN line :
        /\ line[i] \in Digit
        /\ \A j \in 1..(i - 1) :
              (\A k \in j..i : line[k] \in Digit \cup {","}) => line[j] \notin Digit})

\* C6: in single-line mode a line with fewer than
\* max(shares_token_index, value_token_index) + 1 numeric tokens, so also a line
\* with none, contributes no Holding.
C6_TooFewTokensNoHolding ==
    (SingleLineMode
        /\ NumTokens(Strip(last.raw))
              < Max({cfg.shares_token_index, cfg.value_token_index}) + 1)
      => last.emitted = 0

\* A line with two numeric tokens was read where the value is the third token.
C6_Witness ==
    /\ SingleLineMode
    /\ cfg.value_token_index = 2
    /\ last.raw = L_Acme
    /\ last.kind = "short"
    /\ last.emitted = 0

\* C7: the current country is reset at the start of every column scan.  A Holding
\* from a column in which no country heading precedes its source line has no
\* country, whatever an earlier column or page set.
C7_CountryResetPerColumn ==
    /\ (pc = "line" /\ line_idx = 0) => current_country_iso3 = None
    /\ (pc \in {"line", "colend"} /\ current_country_iso3 = None) =>
          \A i \in DOMAIN origins :
             (origins[i][1] = PageIdx /\ origins[i][2] = col_idx) =>
                holdings[i].country_iso3 = None
    /\ cfg.columns <= 1 =>
          \A i \in DOMAIN origins :
             (\A k \in 1..origins[i][3] :
                 CountryOfLine[pages[origins[i][1] + 1][k]] = None)
               => holdings[i].country_iso3 = None

\* A page set Canada, and a Holding of the next page, where no heading comes
\* before its line, has no country.
C7_Witness ==
    /\ pc = "done"
    /\ pages = <<P_Scenario, P_Continued, P_Scenario>>
    /\ \E i, j \in DOMAIN holdings :
          /\ i < j
          /\ holdings[i].country_iso3 = Some("CAN")
          /\ origins[j][1] = 1
          /\ holdings[j].country_iso3 = None

\* The line starts with an instrument-header prefix.
StartsWithHeader(line) ==
    \E k \in DOMAIN cfg.instrument_headers : StartsWith(line, cfg.instrument_headers[k][1])

\* C8: the current security type is set up once per scan and changes only in the
\* pass over a line that starts with an instrument-header prefix, to the type of
\* the first such prefix: no column or page boundary touches it, and every
\* Holding carries the type current when it is emitted.
C8_TypePersists ==
    [][/\ current_security_type' # current_security_type =>
            /\ ScanStep
            /\ StartsWithHeader(Strip(last'.raw))
            /\ current_security_type' = HeaderType(Strip(last'.raw), None)
       /\ \A i \in DOMAIN NewHoldings :
            NewHoldings[i].security_type = current_security_type']_vars

\* A Holding of the third page carries the type set by the header line of the
\* second page.
C8_Witness ==
    /\ pc = "done"
    /\ SingleLineMode
    /\ pages = <<P_Scenario, P_Continued, P_Scenario>>
    /\ \E i \in DOMAIN holdings :
          origins[i][1] = 2 /\ holdings[i].security_type = Some("Common Stock")

\* The line ends the column scan: a stop condition or, in multi-line mode, the
\* section-restart marker.
EndsScan(line) ==
    IsStopLine(line) \/ (MultiLineMode /\ IsMarkerLine(line))

\* The code of the last country heading among the first n lines of a page text;
\* none when no line of them is a heading.
LastHeading(text, n) ==
    IF \E k \in 1..n : CountryOfLine[text[k]] # None
    THEN CountryOfLine[text[CHOOSE k \in 1..n :
                               /\ CountryOfLine[text[k]] # None
                               /\ \A j \in (k + 1)..n : CountryOfLine[text[j]] = None]]
    ELSE None

\* C9: a line the Country Resolver matches, and at which the scan does not stop,
\* becomes the column's country and yields no Holding, no name fragment and no
\* record, however many numeric tokens it holds; within a column only such a line
\* changes the country, and a Holding (in multi-line mode: a record started) after
\* it carries that code until the next heading.
C9_Step ==
    /\ (ScanStep /\ CountryOfLine[last'.raw] # None /\ ~EndsScan(Strip(last'.raw))) =>
          /\ current_country_iso3' = CountryOfLine[last'.raw]
          /\ holdings' = holdings
          /\ UNCHANGED <<pending_name_parts, pending_shares, pending_value,
                         pending_country_iso3>>
          /\ pc' = "line"
    /\ (ScanStep /\ current_country_iso3' # current_country_iso3) =>
          /\ CountryOfLine[last'.raw] = current_country_iso3'
          /\ ~EndsScan(Strip(last'.raw))
    /\ (ScanStep /\ SingleLineMode) =>
          \A i \in DOMAIN NewHoldings :
             NewHoldings[i].country_iso3 = current_country_iso3'
    /\ (ScanStep /\ last'.kind = "start") =>
          pending_country_iso3' = current_country_iso3'

C9_State ==
    cfg.columns <= 1 =>
        \A i \in DOMAIN origins :
           holdings[i].country_iso3
              = LastHeading(pages[origins[i][1] + 1], origins[i][3])

C9_CountryHeading == []C9_State /\ [][C9_Step]_vars

\* "Canada—6.5%" holds the two numeric tokens of a holding line; it gave no
\* Holding, and the Holding of the line after it carries CAN.
C9_Witness ==
    /\ SingleLineMode
    /\ cfg.columns <= 1
    /\ pc = "line"
    /\ line_idx >= 2
    /\ PageText[line_idx - 1] = L_Canada
    /\ Len(_parse_numeric_tokens(L_Canada))
          > Max({cfg.shares_token_index, cfg.value_token_index})
    /\ last.kind = "holding"
    /\ col_emitted = 1
    /\ holdings[Len(holdings)].country_iso3 = Some("CAN")

\* C10 as amended: the stop condition is checked before the instrument header.  A
\* line that satisfies a stop condition ends the column scan and leaves the
\* security type as it was, also when it starts with an instrument-header prefix;
\* a header line at which the scan does not stop sets the type.
C10_StopBeforeHeader ==
    [][/\ (ScanStep /\ IsStopLine(Strip(last'.raw))) =>
            /\ current_security_type' = current_security_type
            /\ pc' = "colend"
       /\ (ScanStep /\ StartsWithHeader(Strip(last'.raw))
              /\ ~EndsScan(Strip(last'.raw))) =>
            current_security_type' = HeaderType(Strip(last'.raw), None)]_vars

\* "Total Return Swaps 3 4", a header line and a stop line, ended a column scan
\* and the type is still the one of the "Common Stocks" line before it.
C10_Witness ==
    /\ last.raw = L_Swaps
    /\ last.kind = "stop"
    /\ pc = "colend"
    /\ StartsWithHeader(Strip(L_Swaps))
    /\ current_security_type = Some("Common Stock")

\* C10 as stated: the instrument header is checked before the stop condition.  A
\* line that starts with an instrument-header prefix sets the security type, also
\* when it satisfies a stop condition.
C10_HeaderBeforeStop ==
    [][(ScanStep /\ StartsWithHeader(Strip(last'.raw))
           /\ ~(MultiLineMode /\ IsMarkerLine(Strip(last'.raw)))) =>
          current_security_type' = HeaderType(Strip(last'.raw), None)]_vars

\* C11 as amended: the stop condition is checked before the country heading.  A
\* line that satisfies a stop condition ends the column scan and leaves the
\* column's country as it was, also when the Country Resolver matches it; a
\* matched line at which the scan does not stop is skipped and the scan goes on.
C11_StopBeforeCountry ==
    [][/\ (ScanStep /\ CountryOfLine[last'.raw] # None
              /\ IsStopLine(Strip(last'.raw))) =>
            /\ current_country_iso3' = current_country_iso3
            /\ pc' = "colend"
       /\ (ScanStep /\ CountryOfLine[last'.raw] # None
              /\ ~EndsScan(Strip(last'.raw))) =>
            pc' = "line"]_vars

\* "Total Canada—6.5%", which the Country Resolver matches and which starts
\* with a stop prefix, ended a column scan and the column has no country.
C11_Witness ==
    /\ last.raw = L_TotalCanada
    /\ CountryOfLine[L_TotalCanada] = Some("CAN")
    /\ last.kind = "stop"
    /\ pc = "colend"
    /\ current_country_iso3 = None

\* C11 as stated: the country heading is checked before the stop condition.  A
\* line the Country Resolver matches sets the column's country and does not end
\* the column scan, also when it satisfies a stop condition.
C11_CountryBeforeStop ==
    [][(ScanStep /\ CountryOfLine[last'.raw] # None
           /\ ~(MultiLineMode /\ IsMarkerLine(Strip(last'.raw)))) =>
          /\ current_country_iso3' = CountryOfLine[last'.raw]
          /\ pc' = "line"]_vars

\* The line starts with a digit run and ends with a digit run.
DigitRunAtBothEnds(line) ==
    line # <<>> /\ line[1] \in Digit /\ line[Len(line)] \in Digit

\* A holdings page as the claim defines it: an instrument-header string occurs in
\* the text, literally or with whitespace removed from both, or at least three
\* lines start with a digit run and end with a digit run.
LooksLikeHoldingsAsStated(text) ==
    \/ \E k \in DOMAIN cfg.instrument_headers :
          \/ \E i \in DOMAIN text : Contains(text[i], cfg.instrument_headers[k][1])
          \/ Contains(FlatNoSpace(text), NoSpace(cfg.instrument_headers[k][1]))
    \/ Cardinality({i \in DOMAIN text : DigitRunAtBothEnds(Strip(text[i]))}) >= 3

\* The indices in a page list.
Selected == {schedule_pages[k] : k \in DOMAIN schedule_pages}

\* C12: with at least one anchor page, the selected page list is strictly
\* ascending, holds every anchor page and no page outside the range from the first
\* to the last anchor, and holds a non-anchor page exactly if the page lies in
\* that range and looks like a holdings page.
C12_PageSelection ==
    (pc # "select" /\ AnchorPages(cfg, pages) # {}) =>
        LET anchors == AnchorPages(cfg, pages)
        IN  /\ \A j, k \in DOMAIN schedule_pages :
                  j < k => schedule_pages[j] < schedule_pages[k]
            /\ anchors \subseteq Selected
            /\ Selected \subseteq Min(anchors)..Max(anchors)
            /\ \A p \in (0..(Len(pages) - 1)) \ anchors :
                  p \in Selected <=>
                     /\ Min(anchors) <= p
                     /\ p <= Max(anchors)
                     /\ LooksLikeHoldingsAsStated(pages[p + 1])

\* C13: when no page holds the schedule header, the selected page list is empty,
\* the page loop is never entered and the result is the empty list, whatever the
\* pages hold.
C13_NoAnchorNoHoldings ==
    (\A k \in DOMAIN pages :
        ~_contains_normalized(pages[k], cfg.schedule_header)) =>
        /\ pc \in {"select", "page", "done"}
        /\ pc # "select" => schedule_pages = <<>>
        /\ holdings = <<>>

\* A document with a page of holding lines and no schedule header was scanned to
\* the end.
C13_Witness ==
    /\ pc = "done"
    /\ AnchorPages(cfg, pages) = {}
    /\ \E k \in DOMAIN pages : pages[k] = P_Continued
    /\ schedule_pages = <<>>
    /\ holdings = <<>>

\* Equality and order of two quotients.
FracEq(a, b) == a[1] * b[2] = b[1] * a[2]
FracLess(a, b) == a[1] * b[2] < b[1] * a[2]

\* C14: with one column a page has the one box (0, 0, width, height); with
\* n >= 2 columns it has n boxes from left to right, box i from i*width/n to
\* (i+1)*width/n over the full height, so the boxes are contiguous, do not overlap
\* and together cover the page width.
C14_ColumnBoxes ==
    pc = "column" =>
        LET n == cfg.columns
        IN  /\ n = 1 =>
                 /\ Len(boxes) = 1
                 /\ FracEq(boxes[1][1], Frac(0, 1))
                 /\ boxes[1][2] = 0
                 /\ FracEq(boxes[1][3], Frac(width, 1))
                 /\ boxes[1][4] = height
            /\ n >= 2 =>
                 /\ Len(boxes) = n
                 /\ \A i \in 0..(n - 1) :
                       /\ FracEq(boxes[i + 1][1], Frac(i * width, n))
                       /\ FracEq(boxes[i + 1][3], Frac((i + 1) * width, n))
                       /\ boxes[i + 1][2] = 0
                       /\ boxes[i + 1][4] = height
                       /\ FracLess(boxes[i + 1][1], boxes[i + 1][3])
                 /\ \A i \in 1..(n - 1) : FracEq(boxes[i][3], boxes[i + 1][1])
                 /\ FracEq(boxes[1][1], Frac(0, 1))
                 /\ FracEq(boxes[n][3], Frac(width, 1))

\* A page whose width is no multiple of its three columns has its boxes.
C14_Witness ==
    /\ pc = "column"
    /\ cfg.columns = 3
    /\ width = 7
    /\ Len(boxes) = 3

\* C15: every Holding of the output, in either mode, has a non-empty name, no
\* sector and no principal; a single-line candidate whose name is empty (its
\* shares token starts the line) is dropped.
C15_HoldingShape ==
    /\ \A i \in DOMAIN holdings :
          /\ holdings[i].security_name # <<>>
          /\ holdings[i].sector = None
          /\ holdings[i].principal = None
    /\ (SingleLineMode /\ cfg.shares_token_index = 0
           /\ Strip(last.raw) # <<>> /\ Strip(last.raw)[1] \in Digit) =>
          last.emitted = 0

\* "100 Acme Corp 1,234" was read in single-line mode: two numeric tokens, and
\* no text before the first; Holdings were emitted from other lines.
C15_Witness ==
    /\ SingleLineMode
    /\ cfg.shares_token_index = 0
    /\ cfg.value_token_index = 1
    /\ last.raw = M_Acme
    /\ last.kind = "noname"
    /\ last.emitted = 0
    /\ holdings # <<>>

\* The step is a step of validate_holdings.
ValidatorStep == v_pc' # v_pc \/ v_idx' # v_idx

\* C16: validate_holdings of an empty list returns the one error "No holdings
\* extracted." and no warning, and never enters the loop over the rows nor the
\* check of the total.
C16_EmptyInput ==
    /\ [](v_holdings = <<>> /\ v_pc # "idle" =>
             /\ v_pc \in {"entry", "returned"}
             /\ warnings = <<>>
             /\ v_pc = "returned" =>
                    /\ Len(errors) = 1
                    /\ errors[1].row = None
                    /\ errors[1].text = "No holdings extracted.")
    /\ [][v_holdings = <<>> /\ ValidatorStep =>
             v_pc = "entry" /\ v_pc' = "returned"]_vars

\* validate_holdings has returned from an empty list.
C16_Witness ==
    /\ v_holdings = <<>>
    /\ v_pc = "returned"
    /\ Len(errors) = 1

\* The numeric fields of a Holding.
NumericFields == {"shares", "principal", "market_value"}

\* The errors that call field f of row i negative.
NegativeErrors(i, f) ==
    {k \in DOMAIN errors :
        /\ errors[k].text = "is negative"
        /\ errors[k].row = Some(i)
        /\ errors[k].detail[1] = f}

\* C17: once the loop has passed a row, each of its shares, principal and
\* market_value that is present and negative has exactly one error, which quotes
\* the value; a field that is absent, zero or positive has none, and neither has
\* a row the loop has not reached.
C17_NegativeFields ==
    v_pc \in {"row", "returned"} =>
        \A i \in 0..(Len(v_holdings) - 1) : \A f \in NumericFields :
            LET v == v_holdings[i + 1][f]
                E == NegativeErrors(i, f)
            IN  IF i < v_idx /\ v # None /\ v[1] < 0
                THEN /\ Cardinality(E) = 1
                     /\ \A k \in E : errors[k].detail[2] = v[1]
                ELSE E = {}

\* validate_holdings has returned from the single row of -100 shares, with an
\* error that names the field and quotes -100.
C17_Witness ==
    /\ v_pc = "returned"
    /\ Len(v_holdings) = 1
    /\ v_holdings[1].shares = Some(-100)
    /\ \E k \in DOMAIN errors :
          /\ errors[k].text = "is negative"
          /\ errors[k].row = Some(0)
          /\ errors[k].detail = <<"shares", -100>>

\* C18: once the loop has passed a row that has a fund name and a security
\* name but no shares, no principal and no market value, the warnings hold
\* exactly one "no numeric value" warning for that row and the errors hold
\* nothing for that row.
C18_NoNumbers ==
    v_pc \in {"row", "returned"} =>
        \A i \in 0..(v_idx - 1) :
            LET h == v_holdings[i + 1]
            IN  (/\ h.shares = None
                 /\ h.principal = None
                 /\ h.market_value = None
                 /\ h.fund_name # <<>>
                 /\ h.security_name # <<>>) =>
                    /\ Cardinality({k \in DOMAIN warnings :
                           /\ warnings[k].row = Some(i)
                           /\ warnings[k].text = "no numeric value present"}) = 1
                    /\ \A k \in DOMAIN errors : errors[k].row # Some(i)

\* validate_holdings has returned from a list whose second row has names and no
\* numbers, and whose first row has an error of its own.
C18_Witness ==
    /\ v_pc = "returned"
    /\ Len(v_holdings) = 2
    /\ v_holdings[2].fund_name # <<>>
    /\ v_holdings[2].security_name # <<>>
    /\ v_holdings[2].shares = None
    /\ v_holdings[2].principal = None
    /\ v_holdings[2].market_value = None
    /\ \E k \in DOMAIN warnings : warnings[k].row = Some(1)
    /\ errors # <<>>

\* The "suspiciously few words" warnings of row i.
FewWordsWarnings(i) ==
    {k \in DOMAIN warnings :
        /\ warnings[k].row = Some(i)
        /\ warnings[k].text = "has suspiciously few words"}

\* C19: once the loop has passed a row, the row has exactly one "suspiciously
\* few words" warning if its security_name is not empty and has fewer than two
\* whitespace-separated words, and none otherwise; an empty security_name gets
\* the "security_name is empty" error and no such warning.
C19_FewWords ==
    v_pc \in {"row", "returned"} =>
        \A i \in 0..(v_idx - 1) :
            LET name == v_holdings[i + 1].security_name
            IN  /\ Cardinality(FewWordsWarnings(i)) =
                       IF name # <<>> /\ WordCount(name) < 2 THEN 1 ELSE 0
                /\ name = <<>> =>
                       \E k \in DOMAIN errors :
                           /\ errors[k].row = Some(i)
                           /\ errors[k].text = "security_name is empty."

\* validate_holdings has returned from a one-word name, which has the warning,
\* and an empty name, which has the error and no warning.
C19_Witness ==
    /\ v_pc = "returned"
    /\ Len(v_holdings) = 2
    /\ WordCount(v_holdings[1].security_name) = 1
    /\ FewWordsWarnings(0) # {}
    /\ v_holdings[2].security_name = <<>>
    /\ FewWordsWarnings(1) = {}
    /\ \E k \in DOMAIN errors :
          errors[k].row = Some(1) /\ errors[k].text = "security_name is empty."

\* C19 as stated: every row the loop has passed whose security_name has fewer
\* than two words, the empty name with its zero words included, has the
\* "suspiciously few words" warning, and no row of two or more words has it.
C19_FewWordsWithEmpty ==
    v_pc \in {"row", "returned"} =>
        \A i \in 0..(v_idx - 1) :
            FewWordsWarnings(i) # {} <=>
                WordCount(v_holdings[i + 1].security_name) < 2

\* The sum of the market values that are present in a list of Holdings.
RECURSIVE SumPresent(_)
SumPresent(hs) ==
    IF hs = <<>> THEN 0
    ELSE (IF Head(hs).market_value = None THEN 0 ELSE Head(hs).market_value[1])
         + SumPresent(Tail(hs))

\* The warnings about the whole list.
AggregateWarnings == {k \in DOMAIN warnings : warnings[k].row = None}

\* C20: validate_holdings of a list that is not empty returns one warning about
\* the whole list if the market values that are present sum to zero or less
\* (zero when none is present) and none otherwise; that warning is the last of
\* the warnings, and there is none while the loop over the rows still runs.
C20_AggregateWarning ==
    /\ v_pc = "row" => AggregateWarnings = {}
    /\ (v_pc = "returned" /\ v_holdings # <<>>) =>
          /\ Cardinality(AggregateWarnings) =
                 IF SumPresent(v_holdings) <= 0 THEN 1 ELSE 0
          /\ \A k \in AggregateWarnings :
                 /\ k = Len(warnings)
                 /\ warnings[k].text = "Total market_value is non-positive"

\* validate_holdings has returned from a list whose market values are not all
\* zero and cancel out; the warning about the list follows the rows' warnings.
C20_Witness ==
    /\ v_pc = "returned"
    /\ \E i \in DOMAIN v_holdings :
          v_holdings[i].market_value # None /\ v_holdings[i].market_value[1] > 0
    /\ SumPresent(v_holdings) = 0
    /\ Len(warnings) > 1
    /\ warnings[1].row # None
    /\ warnings[Len(warnings)].row = None

\* main has chosen, or failed to choose, the layout by detection.
DetectionDone ==
    /\ fund_id = None
    /\ \/ m_pc \in {"selected", "extract", "done"}
       \/ m_exit = Some("SystemExit: unable to detect fund layout")

\* A pattern of layout c occurs, in any case, in the text t or in the text u.
PatternIn(c, t, u) ==
    \E k \in DOMAIN c.fund_name_patterns :
        \/ Contains(LowerStr(t), LowerStr(c.fund_name_patterns[k]))
        \/ Contains(LowerStr(u), LowerStr(c.fund_name_patterns[k]))

\* What detection gave is the first of the layouts numbered in M, or nothing
\* when M is empty.
FirstOf(M) ==
    IF M = {} THEN cfg = None /\ m_pc = "exit"
    ELSE cfg = configs[Min(M)] /\ m_exit = None

\* The text without its space characters, and without any whitespace.
TextNoBlank == ReplaceBlank(text_first_pages(pages))
TextNoWhitespace ==
    SelectSeq(text_first_pages(pages), LAMBDA c : c \notin Space \cup {"\n"})

\* C21: detect_config_for_pdf returns the first layout, in list order, one of
\* whose patterns is found in the text or in the text without its space
\* characters (line breaks and tabs stay), and None exactly when there is no such
\* layout; a layout without patterns is never returned.
C21_DetectFirstMatch ==
    DetectionDone =>
        /\ FirstOf({i \in DOMAIN configs :
                      PatternIn(configs[i], text_first_pages(pages), TextNoBlank)})
        /\ cfg # None => cfg.fund_name_patterns # <<>>

\* Detection passed over a layout for another fund and took the next one, whose
\* pattern is found only in the text without spaces.
C21_Witness ==
    /\ DetectionDone
    /\ Len(configs) = 2
    /\ cfg = configs[2]
    /\ configs[1].fund_name_patterns # <<>>
    /\ ~PatternIn(cfg, text_first_pages(pages), <<>>)

\* C21 as stated: the second text the patterns are tried on is the text with all
\* its whitespace removed.
C21_DetectWhitespaceStripped ==
    DetectionDone =>
        /\ FirstOf({i \in DOMAIN configs :
                      PatternIn(configs[i], text_first_pages(pages), TextNoWhitespace)})
        /\ cfg # None => cfg.fund_name_patterns # <<>>

\* load_layout_configs has been called and has ended.
LoadDone == m_pc \in {"select", "selected", "extract", "done"} \/ (m_pc = "exit" /\ m_exit # Some("SystemExit: image-based"))

\* C22: once the configuration files are loaded, every file that has id,
\* schedule_header and layout.type has its LayoutConfig among the loaded ones,
\* whatever the other files lack.
C22_MalformedRecordLocal ==
    LoadDone =>
        \A i \in DOMAIN raw_configs :
            LET raw == raw_configs[i]
            IN  (/\ raw.id # None
                 /\ raw.schedule_header # None
                 /\ raw.layout # None
                 /\ raw.layout[1].type # None) =>
                    \E j \in DOMAIN configs : configs[j].id = raw.id[1]

\* No layout can be chosen: the forced id is not among the loaded layouts, or no
\* id is forced and no loaded layout has a pattern found in the text.
NoLayout ==
    IF fund_id # None
    THEN \A i \in DOMAIN configs : configs[i].id # fund_id[1]
    ELSE \A i \in DOMAIN configs :
            ~PatternIn(configs[i], text_first_pages(pages), TextNoBlank)

\* The run has ended at the choice of the layout.
SelectionFailed ==
    m_exit \in {Some("SystemExit: no configuration for fund id"),
                Some("SystemExit: unable to detect fund layout")}

C23_State ==
    SelectionFailed =>
        /\ m_pc = "exit"
        /\ pc = "idle"
        /\ holdings = <<>>
        /\ m_fs = <<>>

C23_Step ==
    /\ (m_pc = "select" /\ NoLayout) => (m_pc' = "exit" /\ SelectionFailed')
    /\ m_pc # "exit"

\* C23: when the forced id is not among the loaded layouts, or no id is forced
\* and no layout matches the document, main ends there with SystemExit:
\* extract_with_layout has not been entered, no directory and no file has been
\* created, and the run takes no further step.
C23_SelectionFailureFatal == []C23_State /\ [][C23_Step]_vars

\* The forced id is not configured and the run has ended, although a loaded
\* layout matches the document.
C23_Witness ==
    /\ m_exit = Some("SystemExit: no configuration for fund id")
    /\ \E i \in DOMAIN configs :
          PatternIn(configs[i], text_first_pages(pages), TextNoBlank)
    /\ m_fs = <<>>
    /\ pc = "idle"

\* --------------------------------------------------------------- C24

\* The helper fn has returned.
Returned(f) == fn = f /\ fn_result # <<>>

\* From the zero-based offset i on, s is blanks and then a dash glyph.
DashAdjacent(s, i) ==
    \E j \in (i + 1)..Len(s) :
        /\ s[j] \in DashChar
        /\ \A k \in (i + 1)..(j - 1) : s[k] \in Space

\* name occurs in line as a whole word with a dash glyph next to it.
WholeWordBeforeDash(line, name) ==
    \E i \in 0..(Len(line) - Len(name)) :
        /\ SubSeq(line, i + 1, i + Len(name)) = name
        /\ i > 0 => line[i] \notin WordChar
        /\ DashAdjacent(line, i + Len(name))

\* The name without its blanks occurs in the line without its blanks, with a
\* dash glyph next to it; no word boundary is asked for.
CompactBeforeDash(line, name) ==
    LET l == SelectSeq(line, LAMBDA c : c # " ")
        n == SelectSeq(name, LAMBDA c : c # " ")
    IN  \E i \in 0..(Len(l) - Len(n)) :
            /\ SubSeq(l, i + 1, i + Len(n)) = n
            /\ DashAdjacent(l, i + Len(n))

\* The table entries that the line names.
NamedEntries(line) ==
    {k \in DOMAIN COUNTRY_TO_ISO3 :
        \/ WholeWordBeforeDash(line, COUNTRY_TO_ISO3[k][1])
        \/ CompactBeforeDash(line, COUNTRY_TO_ISO3[k][1])}

\* C24: country_heading_to_iso3 returns the code of the first entry, in table
\* order, whose name occurs in the line as a whole word followed by optional
\* whitespace and one of the three dash glyphs, or whose space-free name occurs
\* in the space-free line followed by optional whitespace and a dash glyph; it
\* returns none when no entry does. "Canada—6.5%" gives "CAN" and
\* "UnitedKingdom—15.7%" gives "GBR".
C24_CountryFirstEntry ==
    Returned("country_heading_to_iso3") =>
        LET named == NamedEntries(fn_arg)
        IN  /\ named = {} => fn_result[1] = None
            /\ named # {} =>
                   fn_result[1] =
                       Some(COUNTRY_TO_ISO3[CHOOSE k \in named : \A j \in named : k <= j][2])
            /\ fn_arg = L_Canada => fn_result[1] = Some("CAN")
            /\ fn_arg = H_UnitedKingdom => fn_result[1] = Some("GBR")

\* The line that names Sweden before Canada has been resolved to Canada, the
\* earlier entry of the table.
C24_Witness ==
    /\ Returned("country_heading_to_iso3")
    /\ fn_arg = H_SwedenCanada
    /\ fn_result[1] = Some("CAN")

\* --------------------------------------------------------------- C25

\* The blanks the two insertion rules put in front of the character at i:
\* one when a character that is neither whitespace nor a capital is followed
\* by a capital, one when a comma is followed by a letter.
BlanksBefore(name, i) ==
    (IF i > 1 /\ name[i] \in Upper /\ name[i - 1] \notin Space \cup Upper
     THEN <<" ">> ELSE <<>>)
    \o (IF i > 1 /\ name[i - 1] = "," /\ name[i] \in Alpha THEN <<" ">> ELSE <<>>)

RECURSIVE WithBlanks(_, _)
WithBlanks(name, n) ==
    IF n = 0 THEN <<>>
    ELSE WithBlanks(name, n - 1) \o BlanksBefore(name, n) \o <<name[n]>>

\* Every run of two or more whitespace characters becomes one blank.
RunsToOne(s) ==
    LET inRun(i) == /\ s[i] \in Space
                    /\ \/ i > 1 /\ s[i - 1] \in Space
                       \/ i < Len(s) /\ s[i + 1] \in Space
        marked == [i \in DOMAIN s |->
                      IF ~inRun(i) THEN s[i]
                      ELSE IF i = 1 \/ s[i - 1] \notin Space THEN " "
                      ELSE "dropped"]
    IN  SelectSeq(marked, LAMBDA c : c # "dropped")

\* The text without the whitespace at its two ends.
Trimmed(s) ==
    LET kept == {i \in DOMAIN s : s[i] \notin Space}
    IN  IF s = <<>> THEN <<>>
        ELSE IF s[1] \notin Space /\ s[Len(s)] \notin Space THEN s
        ELSE IF kept = {} THEN <<>>
        ELSE SubSeq(s, CHOOSE i \in kept : \A j \in kept : i <= j,
                       CHOOSE i \in kept : \A j \in kept : j <= i)

\* C25: the Name Normalizer puts one blank at every boundary where a character
\* that is neither whitespace nor a capital is followed by a capital, puts a
\* blank after a comma that is followed by a letter, turns runs of two or more
\* whitespace characters into one blank and trims both ends;
\* "AssaAbloyAB,ClassB" becomes "Assa Abloy AB, Class B".
C25_NormalizeName ==
    Returned("_normalize_name") =>
        /\ fn_result[1] = Trimmed(RunsToOne(WithBlanks(fn_arg, Len(fn_arg))))
        /\ fn_arg = H_Assa => fn_result[1] = H_AssaNormal

\* "AssaAbloyAB,ClassB" has been normalized.
C25_Witness ==
    /\ Returned("_normalize_name")
    /\ fn_arg = H_Assa
    /\ fn_result[1] = H_AssaNormal

\* --------------------------------------------------------------- C26

\* The text without commas, currency symbols and footnote markers, trimmed.
Stripped(raw) ==
    Trimmed(SelectSeq(raw, LAMBDA c : c \notin {",", "$", "*", Dagger, DoubleDagger}))

\* C26: for every input string _parse_number returns a number or 'no value'
\* and nothing else, and it returns 'no value' when what is left after
\* stripping commas, currency symbols and footnote markers is empty, a lone
\* dash or a lone em-dash.
C26_ParseNumberTotal ==
    Returned("_parse_number") =>
        /\ \/ fn_result[1] = None
           \/ Len(fn_result[1]) = 1 /\ fn_result[1][1] \in Int
        /\ Stripped(fn_arg) \in {<<>>, <<"-">>, <<EmDash>>} => fn_result[1] = None

\* A lone dash between a currency symbol and a footnote marker has been parsed
\* to 'no value'.
C26_Witness ==
    /\ Returned("_parse_number")
    /\ fn_arg = <<"$", "-", "*">>
    /\ fn_result[1] = None

\* --------------------------------------------------------------- C27

\* C27: two runs of extract_with_layout on the same document text, LayoutConfig
\* and fund_name (the report date is the same in all runs) return the same
\* Holdings, whatever was extracted before or between them.
C27_Deterministic ==
    \A i \in DOMAIN results :
        \A j \in DOMAIN results :
            results[i].job = results[j].job => results[i].holdings = results[j].holdings

\* The same job has run first and third, with another job between the two,
\* and has produced Holdings.
C27_Witness ==
    /\ Len(results) = 3
    /\ results[1].job = results[3].job
    /\ results[2].job # results[1].job
    /\ results[2].holdings # <<>>
    /\ results[1].holdings # <<>>
    /\ results[3].holdings = results[1].holdings

\* --------------------------------------------------------------- C28

\* The number a numeric token stands for: its digits, read without the commas.
TokenNumber(token) ==
    DigitsValue(SelectSeq(token, LAMBDA c : c # ","))

\* The text in front of the zero-based offset, without the periods and blanks
\* at its end and without the whitespace at its two ends.
TextBefore(line, offset) ==
    LET head == SubSeq(line, 1, offset)
        kept == {i \in DOMAIN head : head[i] \notin {".", " "}}
        cut  == IF kept = {} THEN <<>>
                ELSE SubSeq(head, 1, CHOOSE i \in kept : \A j \in kept : j <= i)
    IN  Trimmed(cut)

\* C28: in single-line mode the Holding made from a line has as shares the
\* value of the numeric token at ordinal shares_token_index, as market_value the
\* value of the token at ordinal value_token_index, and as security_name the
\* normalized text in front of the start offset of the shares token, trailing
\* periods and blanks removed; the line has more tokens than the larger of the
\* two ordinals, and no other token enters shares or market_value.
C28_TokenOrdinals ==
    (cfg # None /\ cfg.layout_type # MULTILINE /\ last.kind = "holding") =>
        LET line == Trimmed(last.raw)
            toks == _parse_numeric_tokens(line)
            h    == holdings[Len(holdings)]
        IN  /\ last.emitted = 1
            /\ Len(toks) > cfg.shares_token_index
            /\ Len(toks) > cfg.value_token_index
            /\ h.shares = Some(TokenNumber(toks[cfg.shares_token_index + 1][2]))
            /\ h.market_value = Some(TokenNumber(toks[cfg.value_token_index + 1][2]))
            /\ h.security_name =
                   _normalize_name(TextBefore(line, toks[cfg.shares_token_index + 1][1]))

\* "Beta Inc 5 6 7" has given a Holding with 5 shares and the value 6: the
\* third token is left out.
C28_Witness ==
    /\ cfg # None
    /\ cfg.layout_type # MULTILINE
    /\ cfg.value_token_index = 1
    /\ last.kind = "holding"
    /\ last.raw = L_Beta
    /\ holdings[Len(holdings)].shares = Some(5)
    /\ holdings[Len(holdings)].market_value = Some(6)

\* --------------------------------------------------------------- C29

\* A pass of the line loop of a multi-line column.
MultiLinePass ==
    /\ cfg # None
    /\ cfg.layout_type = MULTILINE
    /\ pc = "line"
    /\ line_idx' = line_idx + 1

\* The characters of a digit-comma run.
RunChar == Digit \cup {","}

\* The length of the run of digits and commas the line begins with.
LeadingRun(line) ==
    IF \E i \in DOMAIN line : line[i] \notin RunChar
    THEN (CHOOSE i \in DOMAIN line :
             /\ line[i] \notin RunChar
             /\ \A j \in 1..(i - 1) : line[j] \in RunChar) - 1
    ELSE Len(line)

\* A leading digit-comma run of the length run, whitespace, more text.
StartShape(line, run) ==
    /\ line # <<>>
    /\ line[1] \in Digit
    /\ run < Len(line)
    /\ line[run + 1] \in Space

\* What follows the leading run and the whitespace after it.
Remainder(line) ==
    LET rest == SubSeq(line, LeadingRun(line) + 1, Len(line))
    IN  SubSeq(rest, Len(rest) - Len(LStripSet(rest, Space)) + 1, Len(rest))

\* The number of the last numeric token of the text; none without a token.
LastTokenNumber(text) ==
    LET toks == _parse_numeric_tokens(text)
    IN  IF toks = <<>> THEN None ELSE Some(TokenNumber(toks[Len(toks)][2]))

\* The record that is pending is the one the appended Holding shows.
AppendedIsPending ==
    /\ Len(holdings') <= Len(holdings) + 1
    /\ pending_shares = None => holdings' = holdings
    /\ holdings' # holdings =>
           LET h == holdings'[Len(holdings')]
           IN  /\ h.shares = pending_shares
               /\ h.market_value = pending_value
               /\ h.country_iso3 = pending_country_iso3

\* A record-start line: the pending record is finalized as it stood, and the
\* new record holds nothing of it.
StartStep ==
    LET line == Trimmed(last'.raw)
        run  == LeadingRun(line)
        rest == Remainder(line)
    IN  /\ StartShape(line, run)
        /\ AppendedIsPending
        /\ pending_shares' = Some(TokenNumber(SubSeq(line, 1, run)))
        /\ pending_country_iso3' = current_country_iso3
        /\ current_country_iso3' = current_country_iso3
        /\ Len(pending_name_parts') <= 1
        /\ pending_name_parts' # <<>> => Contains(rest, pending_name_parts'[1])
        /\ pending_value' = LastTokenNumber(rest)

C29_Step ==
    /\ (MultiLinePass /\ last'.kind = "start") => StartStep
    /\ (MultiLinePass /\ last'.kind # "start") =>
           /\ pending_country_iso3' = pending_country_iso3
           /\ AppendedIsPending
    /\ (cfg # None /\ cfg.layout_type = MULTILINE /\ pc \in {"line", "colend"}
            /\ pc' = "column") => AppendedIsPending

\* C29: in multi-line mode a record-start line (leading digit-comma run,
\* whitespace, more text) finalizes the pending record as it stood and opens a
\* new one: name buffer and value hold only what the rest of the start line
\* gives, shares is the leading run, and the country is current_country_iso3
\* of that moment. No later line of the column changes the record's country,
\* and the Holding made of the record carries it.
C29_StartSnapshot == [][C29_Step]_vars

\* A record started before any country heading, a heading read after it, and
\* the record finalized at the end of the column: the Holding has no country
\* although the column's country is set.
C29_Witness ==
    /\ cfg # None
    /\ cfg.layout_type = MULTILINE
    /\ last.kind = "colend"
    /\ last.emitted = 1
    /\ current_country_iso3 = Some("CAN")
    /\ holdings[Len(holdings)].country_iso3 = None

\* --------------------------------------------------------------- C30

C30_Step ==
    /\ MultiLinePass =>
           IF last'.kind = "start"
           THEN pending_value' = LastTokenNumber(Remainder(Trimmed(last'.raw)))
           ELSE IF last'.kind = "continuation"
           THEN LET value == LastTokenNumber(Trimmed(last'.raw))
                IN  /\ pending_shares # None
                    /\ pending_shares' = pending_shares
                    /\ holdings' = holdings
                    /\ value # None => pending_value' = value
                    /\ value = None =>
                           /\ pending_value' = pending_value
                           /\ pending_name_parts' =
                                  Append(pending_name_parts, Trimmed(last'.raw))
           ELSE /\ pending_value' = pending_value
                /\ pending_name_parts' = pending_name_parts
    /\ (cfg # None /\ cfg.layout_type = MULTILINE /\ holdings' # holdings
            /\ pc \in {"line", "colend"}) =>
           /\ Len(holdings') = Len(holdings) + 1
           /\ holdings'[Len(holdings')].market_value = pending_value
           /\ pending_value # None

\* C30: in multi-line mode the market_value of a Holding is the last numeric
\* token of the last line of its record (rest of the start line, or a
\* continuation line) that has a numeric token: the start line sets the value
\* from its rest, a continuation line with a token overwrites it, a continuation
\* line without a token leaves it and adds the whole line as a name fragment, no
\* other line touches it, and the Holding gets the value pending when the
\* record is finalized.
C30_LastTokenOfLastLine == [][C30_Step]_vars

\* "100 Acme Corp 1,234" and then "Class A 77": the Holding has 100 shares and
\* the value 77, not 1,234.
C30_Witness ==
    /\ cfg # None
    /\ cfg.layout_type = MULTILINE
    /\ last.kind = "colend"
    /\ last.emitted = 1
    /\ holdings[Len(holdings)].shares = Some(100)
    /\ holdings[Len(holdings)].market_value = Some(77)

\* --------------------------------------------------------------- C31

\* The pending record is the same after the step as before it.
PendingUnchanged ==
    /\ pending_name_parts' = pending_name_parts
    /\ pending_shares' = pending_shares
    /\ pending_value' = pending_value
    /\ pending_country_iso3' = pending_country_iso3

\* While no record is pending in a multi-line column, name buffer and value
\* are empty: nothing of a line read so far is kept.
C31_State ==
    (cfg # None /\ cfg.layout_type = MULTILINE /\ pc = "line" /\ pending_shares = None) =>
        /\ pending_name_parts = <<>>
        /\ pending_value = None

C31_Step ==
    /\ (MultiLinePass /\ last'.kind = "ignored") =>
           /\ pending_shares = None
           /\ ~StartShape(Trimmed(last'.raw), LeadingRun(Trimmed(last'.raw)))
    /\ (MultiLinePass /\ pending_shares = None /\ last'.kind # "start") =>
           /\ PendingUnchanged
           /\ holdings' = holdings

\* C31: in multi-line mode a line that is not a record-start line and is read
\* while no record is pending adds no name fragment, sets no value and yields
\* no Holding, and nothing of it is kept for a later Holding.
C31_IgnoredWithoutRecord == []C31_State /\ [][C31_Step]_vars

\* "Class A 77" has been read before any record-start line of the column: no
\* fragment and no value are pending.
C31_Witness ==
    /\ cfg # None
    /\ cfg.layout_type = MULTILINE
    /\ last.kind = "ignored"
    /\ last.raw = M_ClassA
    /\ pending_name_parts = <<>>
    /\ pending_value = None
    /\ holdings = <<>>

\* --------------------------------------------------------------- C32

\* The line starts with a configured noise prefix.
StartsWithNoise(line) ==
    \E k \in DOMAIN cfg.noise_prefixes : StartsWith(line, cfg.noise_prefixes[k])

\* C32: a line that starts with a noise prefix and matches no instrument
\* header, country heading or stop condition yields no Holding and leaves
\* current_security_type, current_country_iso3 and the pending record (shares,
\* value, name fragments, country) unchanged.
C32_NoiseLine ==
    [][(/\ cfg # None
        /\ ScanStep
        /\ StartsWithNoise(Trimmed(last'.raw))
        /\ ~StartsWithHeader(Trimmed(last'.raw))
        /\ CountryOfLine[last'.raw] = None
        /\ ~EndsScan(Trimmed(last'.raw)))
       => /\ last'.kind = "noise"
          /\ holdings' = holdings
          /\ current_security_type' = current_security_type
          /\ current_country_iso3' = current_country_iso3
          /\ PendingUnchanged
          /\ pc' = "line"]_vars

\* "See Notes 1 2" has been read in multi-line mode while a record was pending,
\* and the record is still pending with its value.
C32_Witness ==
    /\ cfg # None
    /\ cfg.layout_type = MULTILINE
    /\ last.kind = "noise"
    /\ last.raw = L_Notes
    /\ pending_shares = Some(100)
    /\ pending_value = Some(1234)
    /\ pc = "line"

\* --------------------------------------------------------------- C33

\* The type of the first instrument-header prefix, in mapping order, that the
\* line starts with.
FirstHeaderType(line) ==
    LET hits == {k \in DOMAIN cfg.instrument_headers :
                    StartsWith(line, cfg.instrument_headers[k][1])}
    IN  Some(cfg.instrument_headers[CHOOSE k \in hits : \A j \in hits : k <= j][2])

\* The line has a numeric token at both configured ordinals and a name in
\* front of the shares token.
HasTokensAndName(line) ==
    LET toks == _parse_numeric_tokens(line)
    IN  /\ Len(toks) > cfg.shares_token_index
        /\ Len(toks) > cfg.value_token_index
        /\ _normalize_name(TextBefore(line, toks[cfg.shares_token_index + 1][1])) # <<>>

C33_Step ==
    (cfg # None /\ ScanStep /\ StartsWithHeader(Trimmed(last'.raw))
         /\ ~EndsScan(Trimmed(last'.raw))) =>
        LET line == Trimmed(last'.raw)
        IN  /\ current_security_type' = FirstHeaderType(line)
            /\ last'.kind \in {"country", "noise", "nodata", "short", "noname",
                               "holding", "start", "continuation", "ignored"}
            /\ (/\ SingleLineMode
                /\ CountryOfLine[last'.raw] = None
                /\ ~IsNoiseLine(line)
                /\ HasTokensAndName(line))
               => /\ Len(holdings') = Len(holdings) + 1
                  /\ holdings'[Len(holdings')].security_type = FirstHeaderType(line)

C34_State ==
    /\ v_pc \in {"entry", "row", "returned"}
    /\ v_pc \in {"entry", "row"} => ENABLED ValidatorNext
    /\ v_pc = "returned" =>
           /\ DOMAIN errors = 1..Len(errors)
           /\ DOMAIN warnings = 1..Len(warnings)
           /\ \A k \in DOMAIN errors : errors[k].text # ""
           /\ \A k \in DOMAIN warnings : warnings[k].text # ""

C34_Step == v_holdings' = v_holdings

\* C34: validate_holdings only reads its input: every call returns an errors
\* list and a warnings list without raising, and no step of it changes the
\* Holding sequence (length, order, any field of any Holding).
C34_ValidatorReadsOnly == []C34_State /\ [][C34_Step]_vars

\* The validator has returned an error about a negative value, and the row it
\* reports still holds the negative value.
C34_Witness ==
    /\ v_pc = "returned"
    /\ \E i \in DOMAIN v_holdings :
          /\ v_holdings[i].market_value # None
          /\ v_holdings[i].market_value[1] < 0
          /\ \E k \in DOMAIN errors : errors[k].row = Some(i - 1)

\* The Holdings that came from page p (an index into the document).
FromPage(p) == {i \in DOMAIN origins : origins[i][1] = p}

\* C35: a stop condition ends only the scan of the column it occurs in.  After
\* the break the column loop goes on with the next column of the same page, a
\* page is left only after its last column, the call returns only after the
\* last selected page, and a page scanned after a stop on an earlier page yields
\* what it yields anywhere: in a finished one-column extraction two selected
\* pages of the same text have produced the same number of Holdings.
C35_State ==
    (pc = "done" /\ cfg.columns <= 1) =>
        \A a \in DOMAIN schedule_pages :
           \A b \in DOMAIN schedule_pages :
              pages[schedule_pages[a] + 1] = pages[schedule_pages[b] + 1] =>
                 Cardinality(FromPage(schedule_pages[a]))
                    = Cardinality(FromPage(schedule_pages[b]))

C35_Step ==
    /\ (ScanStep /\ last'.kind = "stop") =>
          pc' = "colend" /\ col_idx' = col_idx /\ page_pos' = page_pos
    /\ pc = "colend" =>
          /\ pc' = "column"
          /\ col_idx' = col_idx + 1
          /\ page_pos' = page_pos
    /\ (pc = "column" /\ col_idx < NumBoxes(cfg)) =>
          pc' = "line" /\ line_idx' = 0 /\ page_pos' = page_pos
    /\ page_pos' # page_pos =>
          \/ pc = "select"
          \/ pc = "column" /\ col_idx >= NumBoxes(cfg) /\ page_pos' = page_pos + 1
    /\ pc' = "done" => pc = "page" /\ page_pos > Len(schedule_pages)

C35_StopEndsColumnOnly == []C35_State /\ [][C35_Step]_vars

\* A Holding of the second page of a document whose first page was cut short by
\* a stop line, the second page being a copy of the first.
C35_Witness ==
    /\ pc = "done"
    /\ cfg.columns <= 1
    /\ Len(pages) >= 2
    /\ pages[1] = pages[2]
    /\ schedule_pages = <<0, 1>>
    /\ \E k \in 1..(Len(pages[1]) - 1) : IsStopLine(Strip(pages[1][k]))
    /\ FromPage(1) # {}

\* The pass reads an instrument-header line that neither ends the scan nor
\* starts a record, while a record is pending.
HeaderWhilePending ==
    /\ MultiLinePass
    /\ pending_shares # None
    /\ LET line == Strip(last'.raw)
       IN  /\ StartsWithHeader(line)
           /\ ~EndsScan(line)
           /\ ~IsRecordStart(line)

\* C36: in multi-line mode the security_type of a Holding is the type that was
\* current when its record's start line was read.  An instrument-header line
\* read between the start line and the finalize leaves the pending record as it
\* is: the name fragments and the market value are unchanged, and the Holding a
\* finalize would make of the record is the same after the line as before it.
C36_Step ==
    HeaderWhilePending =>
        /\ pending_name_parts' = pending_name_parts
        /\ pending_value' = pending_value
        /\ FinalizeNow(current_security_type)' = FinalizeNow(current_security_type)

C36_TypeOfStartLine == [][C36_Step]_vars

\* No record is pending: the four buffers are as the column loop sets them up.
NoPendingRecord ==
    /\ pending_name_parts = <<>>
    /\ pending_shares = None
    /\ pending_value = None
    /\ pending_country_iso3 = None

\* The step is the end of a column scan.
ColumnEnds == pc \in {"line", "colend"} /\ pc' = "column"

\* C37: in multi-line mode the pending record never crosses a column boundary.
\* The first line of every column is read with no record pending; a record that
\* has no value at the end of its column yields no Holding there; and a column
\* emits a Holding only after a record-start line of its own, so that no line of
\* a column completes or extends a record of an earlier one.
C37_State ==
    MultiLineMode =>
        /\ (pc = "line" /\ line_idx = 0) => NoPendingRecord
        /\ col_emitted > 0 => col_starts > 0

C37_Step ==
    MultiLineMode =>
        /\ (ColumnEnds /\ pending_value = None) => holdings' = holdings
        /\ (pc = "column" /\ pc' = "line") => NoPendingRecord'

C37_PendingStaysInColumn == []C37_State /\ [][C37_Step]_vars

\* A column has ended on a started record that has a name but no value, nothing
\* was emitted for it, and another column of the page is still to be scanned.
C37_Witness ==
    /\ MultiLineMode
    /\ pc = "column"
    /\ col_idx < NumBoxes(cfg)
    /\ last.kind = "colend"
    /\ last.emitted = 0
    /\ pending_shares # None
    /\ pending_name_parts # <<>>
    /\ pending_value = None

\* The texts of the messages of a list.
Texts(msgs) == {msgs[k].text : k \in DOMAIN msgs}

\* C38: every Holding the engine emits, in either mode, has its shares and its
\* market value present and not negative, so the validator's row checks, applied
\* to it, give no negative-value error and no warning of a missing number.
C38_NumbersPresent ==
    \A i \in DOMAIN holdings :
       LET h == holdings[i]
       IN  /\ h.shares # None
           /\ h.market_value # None
           /\ h.shares[1] >= 0
           /\ h.market_value[1] >= 0
           /\ "is negative" \notin Texts(RowErrors(h, i - 1))
           /\ "no numeric value present" \notin Texts(RowWarnings(h, i - 1))

\* A finished multi-line extraction that emitted a Holding and left a started
\* record without a value behind.
C38_Witness ==
    /\ pc = "done"
    /\ MultiLineMode
    /\ holdings # <<>>
    /\ pending_shares # None
    /\ pending_value = None
    /\ pending_name_parts # <<>>

\* C39: the Name Normalizer is idempotent.  For every name over lower-case and
\* capital letters, digits, commas and whitespace, the normalizer applied to its
\* own result returns that result, and the result neither starts nor ends with
\* whitespace and holds no two whitespace characters in a row.
C39_Idempotent ==
    Returned("_normalize_name") =>
        LET r == fn_result[1]
        IN  /\ r # <<>> => r[1] \notin Space /\ r[Len(r)] \notin Space
            /\ \A k \in 1..(Len(r) - 1) : ~(r[k] \in Space /\ r[k + 1] \in Space)
            /\ Len(fn_result) = 2 => fn_result[2] = r

\* The normalizer has been applied a second time, to the result of a name that
\* started with whitespace, held a comma and came back longer than it was.
C39_Witness ==
    /\ fn = "_normalize_name"
    /\ Len(fn_result) = 2
    /\ Len(fn_result[1]) > Len(fn_arg)
    /\ fn_arg[1] \in Space
    /\ \E k \in DOMAIN fn_arg : fn_arg[k] = ","
    /\ fn_result[2] = fn_result[1]

====
